---- MODULE Spec2Model ----
(***************************************************************************)
(* Model of the spectrum-analyzer crate: the FrequencySpectrum store       *)
(* (src/src/spectrum.rs), its statistics, rescale and the two lookups.     *)
(*                                                                         *)
(* Numbers.  The crate computes in IEEE-754 binary32 (Rust f32).  A float  *)
(* is modelled by its ordinal: the integer whose absolute value is the bit *)
(* pattern of |x| and whose sign is the sign of x.  The order of finite    *)
(* floats is the order of their ordinals, and for two floats of the same   *)
(* sign the difference of the ordinals is their distance in ULPs.  +0.0 is *)
(* the ordinal 0; -0.0 is the integer NegZero = -2^31, its bit pattern     *)
(* 0x80000000 read as an i32.  An ordinal beyond that of infinity is a NaN *)
(* with its payload.  Every arithmetic operator below rounds to nearest,   *)
(* ties to even, as the hardware does, and returns the quiet NaN           *)
(* 0x7FC00000 for every NaN result (the sign and payload of a computed NaN *)
(* depend on the target and are never read by the crate).                  *)
(***************************************************************************)
EXTENDS Integers, Sequences, FiniteSets, TLC

\* ------------------------------------------------------------------------
\* binary32 arithmetic
\* ------------------------------------------------------------------------

\* Bit pattern of +infinity (0x7F800000) and of the quiet NaN (0x7FC00000).
PosInf == 255 * 2^23
NaN == 255 * 2^23 + 2^22

\* -0.0: the bit pattern 0x80000000 as an i32.
NegZero == -2147483647 - 1
\* The greatest bit pattern of a magnitude (0x7FFFFFFF).
MaxMag == 2147483647

IsZero(x) == x = 0 \/ x = NegZero
IsNaN(x) == x # NegZero /\ (x > PosInf \/ x < -PosInf)
IsInfinite(x) == x = PosInf \/ x = -PosInf
IsFinite(x) == x = NegZero \/ (x > -PosInf /\ x < PosInf)

Abs(n) == IF n < 0 THEN -n ELSE n
Max(a, b) == IF a >= b THEN a ELSE b
Sign(x) == IF x < 0 THEN -1 ELSE 1

\* The bit pattern of |x|.
Mag(x) == IF x = NegZero THEN 0 ELSE Abs(x)
\* The place of x in the order of the floats: both zeros share one.
Num(x) == IF x = NegZero THEN 0 ELSE x
\* The zero of the given sign.
Zero(sign) == IF sign < 0 THEN NegZero ELSE 0
\* -x.
FNeg(x) == IF x = NegZero THEN 0 ELSE IF x = 0 THEN NegZero ELSE -x

RECURSIVE BitLen(_)
BitLen(n) == IF n = 0 THEN 0 ELSE 1 + BitLen(n \div 2)

\* Significand and exponent of a finite float: |x| = Mant(x) * 2^Expo(x).
Mant(x) == IF Mag(x) < 2^23 THEN Mag(x) ELSE 2^23 + (Mag(x) % 2^23)
Expo(x) == IF Mag(x) < 2^23 THEN -149 ELSE (Mag(x) \div 2^23) - 150

\* Round sign * (m + fraction) * 2^e to the nearest float, ties to even.
\* sticky = 1 says that a non-zero fraction below m was cut off; the callers
\* pass at least 26 significant bits in m whenever sticky = 1, and m < 2^30
\* whenever the value can underflow (a shift of more than 30 bits gives 0).
\* m = 0 is the exact zero of a sum, which is +0.0; a product or quotient
\* that rounds to zero keeps its sign.
RoundPack(sign, m, e, sticky) ==
    IF m = 0 THEN 0
    ELSE LET n == BitLen(m)
             te == Max(e + n - 24, -149)
             sh == te - e
             q == IF sh <= 0 THEN m * 2^(-sh) ELSE IF sh > 30 THEN 0 ELSE m \div 2^sh
             r == IF sh <= 0 \/ sh > 30 THEN 0 ELSE m % 2^sh
             half == IF sh <= 0 \/ sh > 30 THEN 1 ELSE 2^(sh - 1)
             up == IF sh <= 0 \/ sh > 30 THEN 0
                   ELSE IF r > half THEN 1
                   ELSE IF r < half THEN 0
                   ELSE IF sticky = 1 THEN 1
                   ELSE q % 2
         IN  IF te > 104 THEN sign * PosInf
             ELSE IF (te + 149) * 2^23 + (q + up) >= PosInf THEN sign * PosInf
             ELSE IF (te + 149) * 2^23 + (q + up) = 0 THEN Zero(sign)
             ELSE sign * ((te + 149) * 2^23 + (q + up))

\* `n as f32` for an integer 0 <= n < 2^31.
FromInt(n) == RoundPack(Sign(n), Abs(n), 0, 0)

\* a + b on finite operands whose exponents satisfy Expo(a) >= Expo(b).
AddOrdered(a, b) ==
    LET d == Expo(a) - Expo(b)
        big == Mant(a) * 8
        small8 == Mant(b) * 8
        s == IF d > 27 THEN 0 ELSE small8 \div 2^d
        st == IF d > 27 THEN 1 ELSE IF small8 % 2^d # 0 THEN 1 ELSE 0
    IN  IF Sign(a) = Sign(b)
        THEN RoundPack(Sign(a), big + s, Expo(a) - 3, st)
        ELSE IF big >= s + st
             THEN RoundPack(Sign(a), big - s - st, Expo(a) - 3, st)
             ELSE RoundPack(Sign(b), s - big, Expo(a) - 3, 0)

\* f32 addition.
FAdd(a, b) ==
    IF IsNaN(a) \/ IsNaN(b) THEN NaN
    ELSE IF IsInfinite(a) THEN (IF b = -a THEN NaN ELSE a)
    ELSE IF IsInfinite(b) THEN b
    ELSE IF IsZero(a) /\ IsZero(b)
         THEN (IF a = NegZero /\ b = NegZero THEN NegZero ELSE 0)
    ELSE IF IsZero(a) THEN b
    ELSE IF IsZero(b) THEN a
    ELSE IF Expo(a) >= Expo(b) THEN AddOrdered(a, b) ELSE AddOrdered(b, a)

\* f32 subtraction.
FSub(a, b) == FAdd(a, FNeg(b))

\* f32 multiplication: the 48-bit product of the significands is built from
\* 12-bit halves and cut to 28 bits plus a sticky bit.
FMul(a, b) ==
    IF IsNaN(a) \/ IsNaN(b) THEN NaN
    ELSE IF IsInfinite(a) \/ IsInfinite(b)
         THEN (IF IsZero(a) \/ IsZero(b) THEN NaN ELSE Sign(a) * Sign(b) * PosInf)
    ELSE IF IsZero(a) \/ IsZero(b) THEN Zero(Sign(a) * Sign(b))
    ELSE LET ah == Mant(a) \div 2^12
             al == Mant(a) % 2^12
             bh == Mant(b) \div 2^12
             bl == Mant(b) % 2^12
             cross == ah * bl + al * bh
             losum == (cross % 2^12) * 2^12 + al * bl
             hi == ah * bh + (cross \div 2^12) + (losum \div 2^24)
             lo == losum % 2^24
             k == Max(BitLen(hi) - 4, 0)
             m == hi * 2^(24 - k) + (lo \div 2^k)
             st == IF lo % 2^k # 0 THEN 1 ELSE 0
         IN  RoundPack(Sign(a) * Sign(b), m, Expo(a) + Expo(b) + k, st)

\* Long division: shift quotient bits in until the quotient has 27 bits.
RECURSIVE DivLoop(_, _, _, _)
DivLoop(q, r, d, k) ==
    IF q >= 2^26 THEN <<q, r, k>>
    ELSE IF 2 * r >= d THEN DivLoop(2 * q + 1, 2 * r - d, d, k + 1)
    ELSE DivLoop(2 * q, 2 * r, d, k + 1)

\* f32 division.
FDiv(a, b) ==
    IF IsNaN(a) \/ IsNaN(b) THEN NaN
    ELSE IF IsInfinite(a)
         THEN (IF IsInfinite(b) THEN NaN ELSE Sign(a) * Sign(b) * PosInf)
    ELSE IF IsInfinite(b) THEN Zero(Sign(a) * Sign(b))
    ELSE IF IsZero(b) THEN (IF IsZero(a) THEN NaN ELSE Sign(a) * Sign(b) * PosInf)
    ELSE IF IsZero(a) THEN Zero(Sign(a) * Sign(b))
    ELSE LET res == DivLoop(Mant(a) \div Mant(b), Mant(a) % Mant(b), Mant(b), 0)
         IN  RoundPack(Sign(a) * Sign(b), res[1], Expo(a) - Expo(b) - res[3],
                       IF res[2] # 0 THEN 1 ELSE 0)

\* f32 comparisons (false whenever an operand is NaN; -0.0 == +0.0).
FLt(a, b) == ~IsNaN(a) /\ ~IsNaN(b) /\ Num(a) < Num(b)
FLe(a, b) == ~IsNaN(a) /\ ~IsNaN(b) /\ Num(a) <= Num(b)
FGt(a, b) == FLt(b, a)
FEq(a, b) == ~IsNaN(a) /\ ~IsNaN(b) /\ Num(a) = Num(b)

\* ------------------------------------------------------------------------
\* Frequency, FrequencyValue and the float_cmp comparison
\* ------------------------------------------------------------------------

\* Frequency::from / FrequencyValue::from accept a float iff it is neither
\* NaN nor infinite; construction from any other value fails.
FromOk(x) == IsFinite(x)

\* Ord for FrequencyValue: the total order of the finite floats.
ValueLe(l, r) == FLe(l, r)

\* approx_eq!(f32, a, b, ulps = n) of float_cmp with no epsilon margin:
\* a == b, or the bit patterns read as i32 differ by at most n, the
\* difference wrapping around (saturating_abs(a.to_bits() as i32
\* .wrapping_sub(b.to_bits() as i32)) <= n).  For two floats of one sign
\* that is the distance of their magnitudes, NaN payloads included; for
\* two floats of different sign the difference wraps to 2^31 minus the
\* distance of their magnitudes.
ApproxEq(a, b, ulps) ==
    \/ FEq(a, b)
    \/ IF Sign(a) = Sign(b)
       THEN Abs(Mag(a) - Mag(b)) <= ulps
       ELSE Abs(Mag(a) - Mag(b)) > MaxMag - ulps

\* The margin written at every call site of approx_eq! in spectrum.rs.
Ulps == 3

\* ------------------------------------------------------------------------
\* Statistics
\* ------------------------------------------------------------------------

\* Stable insertion of bin x into a sequence sorted ascending by value:
\* x goes behind every bin whose value is <= its own.
RECURSIVE InsertByValue(_, _)
InsertByValue(s, x) ==
    IF s = <<>> THEN <<x>>
    ELSE IF ValueLe(Head(s)[2], x[2]) THEN <<Head(s)>> \o InsertByValue(Tail(s), x)
    ELSE <<x>> \o s

\* data_sorted.sort_by(value): a stable sort of a copy, ascending by value.
RECURSIVE SortByValue(_)
SortByValue(d) ==
    IF d = <<>> THEN <<>>
    ELSE InsertByValue(SortByValue(SubSeq(d, 1, Len(d) - 1)), d[Len(d)])

\* .map(value).fold(0.0, |a, b| a + b): the values added left to right.
RECURSIVE FoldSum(_)
FoldSum(s) ==
    IF s = <<>> THEN 0
    ELSE FAdd(FoldSum(SubSeq(s, 1, Len(s) - 1)), s[Len(s)][2])

\* A median that takes the upper middle entry alone.
MedianMutUpper(sorted) == sorted[Len(sorted) \div 2 + 1][2]

\* A median that adds the two middle entries and does not halve the sum.
MedianMutNoHalf(sorted) ==
    FAdd(sorted[Len(sorted) \div 2][2], sorted[Len(sorted) \div 2 + 1][2])

\* The median block: the mean of the sorted entries at 0-based positions
\* len/2 - 1 and len/2 (positions len/2 and len/2 + 1 counted from 1).
MedianOf(sorted) ==
    FDiv(FAdd(sorted[Len(sorted) \div 2][2], sorted[Len(sorted) \div 2 + 1][2]),
         FromInt(2))

\* The sum, not divided by the length.
AverageMutNoDiv(sorted) == FoldSum(sorted)

\* sum / len as f32.
AverageOf(sorted) == FDiv(FoldSum(sorted), FromInt(Len(sorted)))

\* calc_statistics reading the extremes off the unsorted bins.
CalcStatisticsMutUnsorted(d) ==
    LET sorted == SortByValue(d)
    IN  [min |-> d[1],
         max |-> d[Len(d)],
         average |-> AverageOf(sorted),
         median |-> MedianOf(sorted),
         ok |-> FromOk(AverageOf(sorted)) /\ FromOk(MedianOf(sorted))]

\* calc_statistics: the four statistics of the bins d (Len(d) >= 2), and
\* whether every FrequencyValue built on the way is finite.
CalcStatistics(d) ==
    LET sorted == SortByValue(d)
    IN  [min |-> sorted[1],
         max |-> sorted[Len(sorted)],
         average |-> AverageOf(sorted),
         median |-> MedianOf(sorted),
         ok |-> /\ FromOk(AverageOf(sorted))
                /\ FromOk(FAdd(sorted[Len(sorted) \div 2][2],
                               sorted[Len(sorted) \div 2 + 1][2]))
                /\ FromOk(MedianOf(sorted))]

\* ------------------------------------------------------------------------
\* Rescale
\* ------------------------------------------------------------------------

\* Factories a caller may pass as ComplexSpectrumScalingFunction; each reads
\* one of the four statistics it is called with and touches nothing else.
Factories == {"sub_min", "div_max", "sub_avg", "sub_median"}

\* Factories whose closures hold the spectrum they are passed to (through an
\* Rc or a 'static reference):
\*   rescale_sub_avg_then_div_max  the factory calls
\*       apply_complex_scaling_fn(sub_avg) on the spectrum and returns
\*       |x| x / max, max being the argument it was called with;
\*   sub_min_reading_data  the factory returns a function that calls
\*       spectrum.data() and then subtracts min;
\*   sub_min_rescaling  the factory returns a function that calls
\*       apply_complex_scaling_fn(sub_min) on the spectrum and then
\*       subtracts min;
\*   sub_min_keeping_ref  the factory calls spectrum.data(), keeps the Ref
\*       it gets alive beyond its return and returns |x| x - min.
ReentrantFactories ==
    {"rescale_sub_avg_then_div_max", "sub_min_reading_data", "sub_min_rescaling",
     "sub_min_keeping_ref"}

\* The arithmetic of the per-element function of the factory `kind`.
FnOf(kind) ==
    CASE kind \in Factories -> kind
      [] kind = "rescale_sub_avg_then_div_max" -> "div_max"
      [] kind \in {"sub_min_reading_data", "sub_min_rescaling",
                   "sub_min_keeping_ref"} -> "sub_min"

\* The calls of apply_complex_scaling_fn that one call with the factory
\* `kind` makes on the spectrum, itself included.
Calls(kind) ==
    IF kind \in {"rescale_sub_avg_then_div_max", "sub_min_rescaling"} THEN 2 ELSE 1

\* The per-element function the factory `kind` returns for the statistics
\* (mn, mx, avg, med), applied to the magnitude x.
ScaleFn(kind, mn, mx, avg, med, x) ==
    CASE kind = "sub_min" -> FSub(x, mn)
      [] kind = "div_max" -> FDiv(x, mx)
      [] kind = "sub_avg" -> FSub(x, avg)
      [] kind = "sub_median" -> FSub(x, med)

\* A loop that reads the statistics anew for every bin, from the bins as
\* far as they are replaced.
RECURSIVE ScaleLoopMutRecompute(_, _, _, _, _, _, _)
ScaleLoopMutRecompute(d, i, kind, mn, mx, avg, med) ==
    IF i > Len(d) THEN [data |-> d, ok |-> TRUE]
    ELSE LET st == CalcStatistics(d)
             y == ScaleFn(kind, st.min[2], st.max[2], st.average, st.median, d[i][2])
         IN  IF ~FromOk(y) THEN [data |-> d, ok |-> FALSE]
             ELSE ScaleLoopMutRecompute([d EXCEPT ![i] = <<d[i][1], y>>], i + 1,
                                        kind, mn, mx, avg, med)

\* The loop over data.iter_mut(): every magnitude replaced in index order;
\* FrequencyValue::from stops the loop at the first non-finite result, with
\* the bins before it already replaced.
RECURSIVE ScaleLoop(_, _, _, _, _, _, _)
ScaleLoop(d, i, kind, mn, mx, avg, med) ==
    IF i > Len(d) THEN [data |-> d, ok |-> TRUE]
    ELSE LET y == ScaleFn(kind, mn, mx, avg, med, d[i][2])
         IN  IF ~FromOk(y) THEN [data |-> d, ok |-> FALSE]
             ELSE ScaleLoop([d EXCEPT ![i] = <<d[i][1], y>>], i + 1,
                            kind, mn, mx, avg, med)

\* ------------------------------------------------------------------------
\* Lookups
\* ------------------------------------------------------------------------

\* calculate_y_coord_between_points: the line through (x1, y1) and (x2, y2)
\* in slope/intercept form, evaluated at x_coord.
Slope(x1, y1, x2, y2) == FDiv(FSub(y2, y1), FSub(x2, x1))
Intercept(x1, y1, x2, y2) == FSub(y1, FMul(Slope(x1, y1, x2, y2), x1))

\* The line without its intercept c.
CalculateYMutNoIntercept(x1, y1, x2, y2, x_coord) ==
    FMul(Slope(x1, y1, x2, y2), x_coord)

\* slope * x_coord + c.
CalculateYCoordBetweenPoints(x1, y1, x2, y2, x_coord) ==
    FAdd(FMul(Slope(x1, y1, x2, y2), x_coord), Intercept(x1, y1, x2, y2))

\* A scan that leaves out the last window.
FirstWindowMutSkipsLast(d, search_fr) ==
    IF \E i \in 1..(Len(d) - 2) : ~FGt(search_fr, d[i + 1][1])
    THEN CHOOSE i \in 1..(Len(d) - 2) :
             /\ ~FGt(search_fr, d[i + 1][1])
             /\ \A j \in 1..(i - 1) : FGt(search_fr, d[j + 1][1])
    ELSE 0

\* The window scan of both lookups: the first i such that search_fr is not
\* above the frequency of bin i + 1; 0 when the loop runs off the end.
FirstWindow(d, search_fr) ==
    IF \E i \in 1..(Len(d) - 1) : ~FGt(search_fr, d[i + 1][1])
    THEN CHOOSE i \in 1..(Len(d) - 1) :
             /\ ~FGt(search_fr, d[i + 1][1])
             /\ \A j \in 1..(i - 1) : FGt(search_fr, d[j + 1][1])
    ELSE 0

Returned(v) == [ok |-> TRUE, out |-> v, why |-> ""]
Panicked(why) == [ok |-> FALSE, out |-> <<>>, why |-> why]

\* The bounds check shared by both lookups.
OutOfBounds(d, search_fr) ==
    FLt(search_fr, d[1][1]) \/ FGt(search_fr, d[Len(d)][1])

\* The body of freq_val_exact's loop for the window (w, w + 1) it stops at:
\* the lower bin's value if its frequency approx-equals search_fr, else the
\* interpolation between the two bins.
ExactInWindow(d, w, search_fr) ==
    IF ApproxEq(d[w][1], search_fr, Ulps) THEN Returned(<<d[w][2]>>)
    ELSE LET y == CalculateYCoordBetweenPoints(d[w][1], d[w][2],
                                               d[w + 1][1], d[w + 1][2], search_fr)
         IN  IF FromOk(y) THEN Returned(<<y>>) ELSE Panicked("not finite")

\* freq_val_exact(search_fr) on the bins d.
FreqValExact(d, search_fr) ==
    IF ApproxEq(d[1][1], search_fr, Ulps) THEN Returned(<<d[1][2]>>)
    ELSE IF ApproxEq(d[Len(d)][1], search_fr, Ulps) THEN Returned(<<d[Len(d)][2]>>)
    ELSE IF OutOfBounds(d, search_fr) THEN Panicked("out of bounds")
    ELSE IF FirstWindow(d, search_fr) = 0 THEN Panicked("Here be dragons")
    ELSE ExactInWindow(d, FirstWindow(d, search_fr), search_fr)

\* The literal 0.5.
Half == FDiv(FromInt(1), FromInt(2))

\* A pick that gives the exact midpoint to the lower bin.
ClosestInWindowMutLe(d, res, w, search_fr) ==
    IF ApproxEq(d[w][1], search_fr, Ulps) THEN Returned(d[w])
    ELSE IF FLe(FDiv(FSub(search_fr, d[w][1]), res), Half) THEN Returned(d[w])
    ELSE Returned(d[w + 1])

\* The bin freq_val_closest picks inside window w.
ClosestInWindow(d, res, w, search_fr) ==
    IF ApproxEq(d[w][1], search_fr, Ulps) THEN Returned(d[w])
    ELSE IF FLt(FDiv(FSub(search_fr, d[w][1]), res), Half) THEN Returned(d[w])
    ELSE Returned(d[w + 1])

\* freq_val_closest(search_fr) on the bins d with resolution res.
FreqValClosest(d, res, search_fr) ==
    IF ApproxEq(d[1][1], search_fr, Ulps) THEN Returned(d[1])
    ELSE IF ApproxEq(d[Len(d)][1], search_fr, Ulps) THEN Returned(d[Len(d)])
    ELSE IF OutOfBounds(d, search_fr) THEN Panicked("out of bounds")
    ELSE IF FirstWindow(d, search_fr) = 0 THEN Panicked("Here be dragons")
    ELSE ClosestInWindow(d, res, FirstWindow(d, search_fr), search_fr)

\* ------------------------------------------------------------------------
\* Bounds and inputs
\* ------------------------------------------------------------------------

\* Longest bin sequence.
MaxLen == 4
\* Most rescale calls on one spectrum.
MaxRescales == 2
\* Most Refs of data() alive at a time.
MaxRefs == 2
\* Index step across the gap of a spectrum that is not evenly spaced (the
\* test spectrum steps from 300 Hz to 450 Hz at a resolution of 50 Hz).
GapStep == 3

\* A resolution computed from half the sample count.
FftCalcFrequencyResolutionMutHalfLen(sampling_rate, samples_len) ==
    FDiv(FromInt(sampling_rate), FromInt(samples_len \div 2))

\* The longest sample blocks of the Bin Mapper have 2^MaxLog2Len samples.
MaxLog2Len == 3

\* fft_calc_frequency_resolution: sampling_rate as f32 / samples_len as f32.
FftCalcFrequencyResolution(sampling_rate, samples_len) ==
    FDiv(FromInt(sampling_rate), FromInt(samples_len))

\* (sampling rate, sample count) pairs the resolutions are computed from:
\* 50 Hz as in the tests, and 44100 / 2048 Hz.
RateAndLen == {<<400, 8>>, <<44100, 2048>>}

\* Index of the first stored bin (0: the DC bin is stored).
Starts == {0, 1}

\* Magnitudes of the input bins.
Magnitudes == {FromInt(0), FromInt(5), FromInt(7)}

\* f32::MAX, and magnitudes whose differences and sums leave the range of
\* f32.
F32Max == PosInf - 1
ExtremeMagnitudes == {-F32Max, FromInt(0), F32Max}

\* The bin at index i: frequency fft_index as f32 * frequency_resolution.
BinFrequency(i, res) == FMul(FromInt(i), res)

\* Indices of n stored bins from index `start` on: neighbours one index
\* apart, but GapStep apart behind position gap (gap = 0: no gap).
Indices(n, start, gap) ==
    [i \in 1..n |-> start + (i - 1) + (IF gap # 0 /\ i > gap THEN GapStep - 1 ELSE 0)]

\* The bins the constructor is given.
InputBins(idx, vals, res) ==
    [i \in DOMAIN idx |-> <<BinFrequency(idx[i], res), vals[i]>>]

\* The bins with the first frequency k ULPs higher: a lowest bin just above
\* 0 Hz for k = 1; for k < 0 with the first frequency negated: a lowest bin
\* at -0.0 Hz.
NudgeFirst(bins, k) ==
    [bins EXCEPT ![1] = <<IF k < 0 THEN FNeg(bins[1][1]) ELSE bins[1][1] + k,
                          bins[1][2]>>]

\* Magnitudes of the spectra the lookups are tried on: 0, 7, 5 in rotation.
Rotation(n, k) == [i \in 1..n |-> <<FromInt(0), FromInt(7), FromInt(5)>>[((i + k) % 3) + 1]]

\* Query frequencies for the bins d: every stored frequency; -0.0; 3 and 4
\* ULPs to either side of the lowest and of the highest; one resolution
\* outside; and a quarter, a half, three quarters and one and a half
\* resolutions above each stored frequency but the last.
UlpOffsets == {-4, -3, 3, 4}
Fractions == {<<1, 4>>, <<1, 2>>, <<3, 4>>, <<3, 2>>}
Queries(d, res) ==
    {d[i][1] : i \in 1..Len(d)}
    \cup {NegZero}
    \cup {d[1][1] + k : k \in UlpOffsets}
    \cup {d[Len(d)][1] + k : k \in UlpOffsets}
    \cup {FSub(d[1][1], res), FAdd(d[Len(d)][1], res)}
    \cup {FAdd(d[i][1], FMul(FDiv(FromInt(fr[1]), FromInt(fr[2])), res)) :
            i \in 1..(Len(d) - 1), fr \in Fractions}

\* ------------------------------------------------------------------------
\* Samples and the transforms (external collaborators)
\* ------------------------------------------------------------------------

\* A complex number is <<re, im>>.
Conj(c) == <<c[1], FNeg(c[2])>>

RECURSIVE IsPowerOfTwo(_)
IsPowerOfTwo(n) == n = 1 \/ (n > 1 /\ n % 2 = 0 /\ IsPowerOfTwo(n \div 2))

\* m * m for a significand m < 2^24, as seven 12-bit limbs, the least first.
SquareLimbs(m) ==
    LET h == m \div 4096
        l == m % 4096
        t1 == ((l * l) \div 4096) + ((2 * h * l) % 4096)
        t2 == (t1 \div 4096) + ((2 * h * l) \div 4096) + h * h
    IN  <<(l * l) % 4096, t1 % 4096, t2 % 4096, t2 \div 4096, 0, 0, 0>>

\* The square root, digit by digit: ds are the base-4 digits of the radicand
\* still to come (the highest first, zeros once they are used up), q the
\* root of the digits taken so far and r what they leave; the root of the
\* whole is (q + fraction) * 2^e.  Stops when q has 26 bits.
RECURSIVE SqrtLoop(_, _, _, _)
SqrtLoop(ds, q, r, e) ==
    IF q >= 2^25 THEN <<q, r, e, ds>>
    ELSE IF 4 * r + (IF ds = <<>> THEN 0 ELSE Head(ds)) >= 4 * q + 1
         THEN SqrtLoop(IF ds = <<>> THEN ds ELSE Tail(ds), 2 * q + 1,
                       4 * r + (IF ds = <<>> THEN 0 ELSE Head(ds)) - (4 * q + 1), e - 1)
    ELSE SqrtLoop(IF ds = <<>> THEN ds ELSE Tail(ds), 2 * q,
                  4 * r + (IF ds = <<>> THEN 0 ELSE Head(ds)), e - 1)

\* Complex32::norm: re.hypot(im), the square root of re^2 + im^2 computed
\* without overflow of the squares and rounded once, to the nearest float
\* (hypotf of the C library).  Infinite if a part is infinite, else NaN if a
\* part is NaN, else |re| or |im| if the other part is a zero.  A part
\* 2^14 times smaller than the other changes the root by less than a
\* quarter of an ULP.
Norm(c) ==
    LET Digit(x, j) == (x[j \div 6 + 1] \div 4^(j % 6)) % 4
        Shifted(x, w, s) ==
            [i \in 1..7 |->
                (IF i - w >= 1 THEN (x[i - w] * 2^s) % 4096 ELSE 0)
                + (IF i - w - 1 >= 1 THEN (x[i - w - 1] * 2^s) \div 4096 ELSE 0)]
        RECURSIVE Sum(_, _, _)
        Sum(x, y, carry) ==
            IF x = <<>> THEN <<>>
            ELSE <<(Head(x) + Head(y) + carry) % 4096>>
                 \o Sum(Tail(x), Tail(y), (Head(x) + Head(y) + carry) \div 4096)
        Digits(x, n) == [i \in 1..n |-> Digit(x, n - i)]
        Count(x) == CHOOSE n \in 1..42 :
                        Digit(x, n - 1) # 0 /\ \A k \in n..41 : Digit(x, k) = 0
        Rounded(res) ==
            RoundPack(1, res[1], res[3],
                      IF res[2] # 0 \/ \E i \in 1..Len(res[4]) : res[4][i] # 0
                      THEN 1 ELSE 0)
        Rooted(ds, e) == Rounded(SqrtLoop(ds, 0, 0, e + Len(ds)))
        Counted(x, n, e) == Rooted(Digits(x, n), e)
        Radicand(x, e) == Counted(x, Count(x), e)
        Ordered(a, b, d) ==
            IF d >= 14 THEN a
            ELSE Radicand(Sum(Shifted(SquareLimbs(Mant(a)), (2 * d) \div 12, (2 * d) % 12),
                              SquareLimbs(Mant(b)), 0),
                          Expo(b))
    IN  IF IsInfinite(c[1]) \/ IsInfinite(c[2]) THEN PosInf
        ELSE IF IsNaN(c[1]) \/ IsNaN(c[2]) THEN NaN
        ELSE IF IsZero(c[2]) THEN Mag(c[1])
        ELSE IF IsZero(c[1]) THEN Mag(c[2])
        ELSE IF Mag(c[1]) >= Mag(c[2])
             THEN Ordered(Mag(c[1]), Mag(c[2]), Expo(c[1]) - Expo(c[2]))
        ELSE Ordered(Mag(c[2]), Mag(c[1]), Expo(c[2]) - Expo(c[1]))

\* Sample blocks of n samples.  Up to 4 samples: every block with 0 or 3 at
\* the odd and 0 or 4 at the even positions (counted from 1), and three
\* blocks of 4 samples whose second coefficient has two non-zero parts with
\* a sum of squares that is no square (1 + 1, 9 + 1, 9 + 9).  Longer blocks
\* alternate between two levels, hi at the odd and lo at the even positions,
\* with an impulse b added to the first sample: the blocks whose transform
\* has integer values whatever the length.
SampleLevels == {<<hi, lo, b>> : hi \in {0, 3}, lo \in {0, 4}, b \in {0, 5}}
AlternatingBlock(n, lv) ==
    [i \in 1..n |-> FromInt((IF i % 2 = 1 THEN lv[1] ELSE lv[2])
                              + (IF i = 1 THEN lv[3] ELSE 0))]
SmallBlocks(n) ==
    [1..n -> {FromInt(0), FromInt(3), FromInt(4)}]
GoodSamples(n) ==
    IF n <= 4
    THEN {s \in SmallBlocks(n) :
            \A i \in 1..n : s[i] \in (IF i % 2 = 1 THEN {FromInt(0), FromInt(3)}
                                       ELSE {FromInt(0), FromInt(4)})}
         \cup (IF n = 4
               THEN {[i \in 1..4 |-> FromInt(b[i])] :
                        b \in {<<1, 0, 0, 1>>, <<3, 1, 0, 0>>, <<3, 0, 0, 3>>}}
               ELSE {})
    ELSE {AlternatingBlock(n, lv) : lv \in SampleLevels}

\* Blocks with one sample that is NaN or infinite, first or last.
BadSamples(n) ==
    IF n = 0 THEN {}
    ELSE {[AlternatingBlock(n, <<3, 4, 0>>) EXCEPT ![p] = v] :
             p \in {1, n}, v \in {NaN, PosInf, -PosInf}}

\* Bins 0..n/2 of the discrete Fourier transform of n real samples
\* (n = 1, n = 2, n = 4, or a longer alternating block), each <<re, im>>.
HalfDft(s) ==
    LET n == Len(s)
    IN  IF n = 1 THEN <<<<s[1], 0>>>>
        ELSE IF n = 2 THEN <<<<FAdd(s[1], s[2]), 0>>, <<FSub(s[1], s[2]), 0>>>>
        ELSE IF n = 4
        THEN <<<<FAdd(FAdd(s[1], s[2]), FAdd(s[3], s[4])), 0>>,
               <<FSub(s[1], s[3]), FSub(s[4], s[2])>>,
               <<FAdd(FSub(s[1], s[2]), FSub(s[3], s[4])), 0>>>>
        ELSE LET b == FSub(s[1], s[3])
                 h == FromInt(n \div 2)
             IN  [k \in 1..(n \div 2 + 1) |->
                    IF k = 1 THEN <<FAdd(FMul(h, FAdd(s[3], s[2])), b), 0>>
                    ELSE IF k = n \div 2 + 1
                    THEN <<FAdd(FMul(h, FSub(s[3], s[2])), b), 0>>
                    ELSE <<b, 0>>]

\* Radix4 forward FFT of the samples as complex numbers: all n bins, the
\* upper ones the conjugates of the lower ones, mirrored.
Dft(s) ==
    LET n == Len(s)
        half == HalfDft(s)
    IN  [k \in 1..n |-> IF k <= n \div 2 + 1 THEN half[k] ELSE Conj(half[n - k + 2])]

\* microfft::real::rfft_n: bins 0..n/2 - 1, the real Nyquist coefficient
\* packed into the imaginary part of bin 0.
Rfft(s) ==
    LET n == Len(s)
        half == HalfDft(s)
    IN  [k \in 1..(n \div 2) |-> IF k = 1 THEN <<half[1][1], half[n \div 2 + 1][1]>>
                                 ELSE half[k]]

\* ------------------------------------------------------------------------
\* Real-FFT adapter (fft/microfft_real.rs)
\* ------------------------------------------------------------------------

\* A dispatch that has no branch for 16384 samples.
SupportedLensMutNo16384 ==
    {2, 4, 8, 16, 32, 64, 128, 256, 512, 1024, 2048, 4096, 8192}

\* The sample counts fft_apply has a branch for.
SupportedLens ==
    {2, 4, 8, 16, 32, 64, 128, 256, 512, 1024, 2048, 4096, 8192, 16384}

\* An unpacking that leaves the Nyquist value in the DC bin's imaginary part.
UnpackNyquistMutKeepIm(res) == Append(res, <<res[1][2], 0>>)

\* The tail of fft_apply: the Nyquist value is taken out of res[0].im,
\* res[0].im is zeroed and (nyquist, 0) is pushed.
UnpackNyquist(res) ==
    Append([res EXCEPT ![1] = <<res[1][1], 0>>], <<res[1][2], 0>>)

\* fft_apply(samples): the result, or the panic of the last branch.
FftApply(samples) ==
    IF Len(samples) \in SupportedLens
    THEN Returned(UnpackNyquist(Rfft(samples)))
    ELSE Panicked("unsupported length")

\* fft_relevant_res_samples_count(samples_len).
FftRelevantResSamplesCount(samples_len) == samples_len \div 2 + 1

\* ------------------------------------------------------------------------
\* Bin Mapper (lib.rs)
\* ------------------------------------------------------------------------

\* FrequencyLimit: All, Min(min), Max(max) or Range(min, max), and what
\* maybe_min() and maybe_max() give for it (Some(x) is <<x>>, None is <<>>).
LimitAll == [kind |-> "All"]
LimitMin(lo) == [kind |-> "Min", min |-> lo]
LimitMax(hi) == [kind |-> "Max", max |-> hi]
LimitRange(lo, hi) == [kind |-> "Range", min |-> lo, max |-> hi]
MaybeMin(limit) == IF limit.kind \in {"Min", "Range"} THEN <<limit.min>> ELSE <<>>
MaybeMax(limit) == IF limit.kind \in {"Max", "Range"} THEN <<limit.max>> ELSE <<>>

\* Per-element scaling functions a caller may pass ("none": no function).
SimpleFns == {"none", "times2", "inverse"}
SimpleScale(fn, x) ==
    CASE fn = "none" -> x
      [] fn = "times2" -> FMul(x, FromInt(2))
      [] fn = "inverse" -> FDiv(FromInt(1), x)

\* A take that lets every value of the FFT result through.
TakeCountMutAll(samples_len) == samples_len

\* .take(samples_len / 2 + 1)
TakeCount(samples_len) == samples_len \div 2 + 1

\* A lower bound that drops the bin on the bound.
PassesMinMutStrict(fr, limit) ==
    MaybeMin(limit) = <<>> \/ FGt(fr, MaybeMin(limit)[1])

\* The two filters: *fr >= min_fr and *fr <= max_fr, each only if given.
PassesMin(fr, limit) ==
    MaybeMin(limit) = <<>> \/ FLe(MaybeMin(limit)[1], fr)
PassesMax(fr, limit) ==
    MaybeMax(limit) = <<>> \/ FLe(fr, MaybeMax(limit)[1])

\* The iterator chain of fft_result_to_spectrum: take, enumerate, frequency,
\* filters, norm, per-element scaling, conversion.  ok is FALSE if a
\* frequency or a value is not finite (Frequency::from / FrequencyValue::from).
\* collect() gathers what the chain yields, in order: the bins are that
\* sequence, whose length the filters decide; the length N of the array
\* type the source names for it is the length of fft_result and plays no
\* further part.
MapBins(fft_result, sampling_rate, limit, fn) ==
    LET samples_len == Len(fft_result)
        res == FftCalcFrequencyResolution(sampling_rate, samples_len)
        taken == SubSeq(fft_result, 1,
                        IF TakeCount(samples_len) < samples_len
                        THEN TakeCount(samples_len) ELSE samples_len)
        indexed == [i \in 1..Len(taken) |-> <<BinFrequency(i - 1, res), taken[i]>>]
        AboveMin(e) == PassesMin(e[1], limit)
        BelowMax(e) == PassesMax(e[1], limit)
        kept == SelectSeq(SelectSeq(indexed, AboveMin), BelowMax)
        bins == [i \in 1..Len(kept) |-> <<kept[i][1], SimpleScale(fn, Norm(kept[i][2]))>>]
    IN  [bins |-> bins,
         ok |-> \A i \in 1..Len(bins) : FromOk(bins[i][1]) /\ FromOk(bins[i][2])]

\* The checks of samples_fft_to_spectrum.
HasNaN(samples) == \E i \in 1..Len(samples) : IsNaN(samples[i])
HasInfiniteMutPositiveOnly(samples) == \E i \in 1..Len(samples) : samples[i] = PosInf
HasInfinite(samples) == \E i \in 1..Len(samples) : IsInfinite(samples[i])

\* ------------------------------------------------------------------------
\* State
\* ------------------------------------------------------------------------

VARIABLES
    input,                 \* the bin sequence the constructor was given
    data,                  \* the bins: a sequence of <<frequency, value>>
    frequency_resolution,
    average, median,       \* cached statistics (values)
    min, max,              \* cached statistics (bins)
    phase,                 \* "ready", or "panicked" once an operation failed
    rescales,              \* number of rescale calls made so far
    last,                  \* the last operation: its name, its argument
                           \* (arg: a frequency, fn: a factory), whether it
                           \* returned (ok), what (out), or why not (why)
    factory_args,          \* the argument tuples the scaling factory was
                           \* invoked with during the last rescale call
    job,                   \* the call of a library entry point in progress:
                           \* its arguments, its position and its locals
    data_ref               \* the number of Refs returned by data() that are alive

vars == <<input, data, frequency_resolution, average, median, min, max, phase,
          rescales, last, factory_args, job, data_ref>>

\* No entry point in progress: the spectrum was built by its constructor.
NoJob == [pc |-> "none"]

stats == <<average, median, min, max>>

Call(op, arg, fn, r) ==
    [op |-> op, arg |-> arg, fn |-> fn, ok |-> r.ok, out |-> r.out, why |-> r.why]

\* The placeholder the constructor stores before calc_statistics runs.
Placeholder == -FromInt(1)

\* A constructor that keeps the bins sorted by value.
NewMutSortInPlace(bins, res) ==
    \E st \in {CalcStatistics(bins)} :
        /\ input = bins
        /\ data = SortByValue(bins)
        /\ frequency_resolution = res
        /\ average = st.average
        /\ median = st.median
        /\ min = st.min
        /\ max = st.max
        /\ phase = "ready"
        /\ rescales = 0
        /\ last = Call("new", 0, "", Returned(<<>>))
        /\ data_ref = 0

\* FrequencySpectrum::new(bins, res) for Len(bins) >= 2, then calc_statistics.
New(bins, res) ==
    \E st \in {CalcStatistics(bins)} :
        /\ input = bins
        /\ data = bins
        /\ frequency_resolution = res
        /\ average = (IF st.ok THEN st.average ELSE Placeholder)
        /\ median = (IF st.ok THEN st.median ELSE Placeholder)
        /\ min = (IF st.ok THEN st.min ELSE <<Placeholder, Placeholder>>)
        /\ max = (IF st.ok THEN st.max ELSE <<Placeholder, Placeholder>>)
        /\ phase = (IF st.ok THEN "ready" ELSE "panicked")
        /\ rescales = 0
        /\ last = Call("new", 0, "", IF st.ok THEN Returned(<<>>)
                                     ELSE Panicked("not finite"))
        /\ data_ref = 0

\* Construction of the spectra the statistics and the rescale are tried on:
\* evenly spaced bins at 50 Hz, every combination of magnitudes; a spectrum
\* of two bins that starts at 0 Hz also with its first frequency one ULP
\* above 0 and with -0.0 Hz; and two bins of extreme magnitudes.
Init ==
    \/ \E n \in 2..MaxLen, start \in Starts :
           \E vals \in [1..n -> Magnitudes] :
               \E res \in {FftCalcFrequencyResolution(400, 8)} :
                   \E nudge \in (IF start = 0 /\ n = 2 THEN {-1, 0, 1} ELSE {0}) :
                       \E bins \in {NudgeFirst(InputBins(Indices(n, start, 0), vals, res), nudge)} :
                           New(bins, res) /\ factory_args = <<>> /\ job = NoJob
    \/ \E vals \in [1..2 -> ExtremeMagnitudes] :
           \E res \in {FftCalcFrequencyResolution(400, 8)} :
               \E bins \in {InputBins(Indices(2, 0, 0), vals, res)} :
                   New(bins, res) /\ factory_args = <<>> /\ job = NoJob

\* Construction of the spectra the lookups are tried on: both resolutions,
\* evenly spaced or with one gap, magnitudes in rotation; and two bins of
\* extreme magnitudes.
InitLookup ==
    \/ \E n \in 2..MaxLen, start \in Starts, rl \in RateAndLen :
           \E gap \in 0..(n - 1), k \in 0..2 :
               \E res \in {FftCalcFrequencyResolution(rl[1], rl[2])} :
                   \E bins \in {InputBins(Indices(n, start, gap), Rotation(n, k), res)} :
                       New(bins, res) /\ factory_args = <<>> /\ job = NoJob
    \/ \E vals \in [1..2 -> ExtremeMagnitudes], start \in Starts :
           \E res \in {FftCalcFrequencyResolution(400, 8)} :
               \E bins \in {InputBins(Indices(2, start, 0), vals, res)} :
                   New(bins, res) /\ factory_args = <<>> /\ job = NoJob

\* The fields of the spectrum.
Current ==
    [data |-> data, frequency_resolution |-> frequency_resolution,
     average |-> average, median |-> median, min |-> min, max |-> max]

\* The getters: each returns its cached cell.
GetAverage == average
GetMedian == median
GetMin == min
GetMax == max

\* max().1 - min().1 on the fields s: the difference of two FrequencyValues
\* is made by FrequencyValue::from, which fails when it is not finite.
RangeOn(s) ==
    IF FromOk(FSub(s.max[2], s.min[2])) THEN Returned(<<FSub(s.max[2], s.min[2])>>)
    ELSE Panicked("not finite")

\* range().
GetRange == RangeOn(Current)

\* A dc_component that answers with the first bin whatever its frequency.
DcComponentMutAlways == <<data[1][2]>>

\* dc_component(): Some(value of data[0]) if data[0].0.val() == 0.0, else
\* None.  Some(v) is <<v>>, None is <<>>.
DcComponent == IF FEq(data[1][1], 0) THEN <<data[1][2]>> ELSE <<>>

\* The arguments the factory is called with: the four cells of s.
FactoryArgs(s) == <<s.min[2], s.max[2], s.average, s.median>>

\* A rescale call that ends in a panic with the fields s.
Aborted(s, why, calls) == [s |-> s, ok |-> FALSE, why |-> why, calls |-> calls]

\* The end of calc_statistics on the fields s, whose bins the loop has left
\* as d: the four statistics st are stored if all of them are finite.
StoreStatistics(s, d, st, calls) ==
    IF st.ok
    THEN [s |-> [s EXCEPT !.data = d, !.average = st.average,
                          !.median = st.median, !.min = st.min, !.max = st.max],
          ok |-> TRUE, why |-> "", calls |-> calls]
    ELSE Aborted([s EXCEPT !.data = d], "not finite", calls)

\* The loop has ended as sc: calc_statistics runs if it replaced every
\* magnitude.
AfterLoop(s, sc, calls) ==
    IF sc.ok THEN StoreStatistics(s, sc.data, CalcStatistics(sc.data), calls)
    ELSE Aborted([s EXCEPT !.data = sc.data], "not finite", calls)

\* apply_complex_scaling_fn on the fields s from the return of the factory
\* `kind`, which was called with args: data.borrow_mut() panics while a Ref
\* of data() is alive; the loop replaces the magnitudes until a function
\* panics or returns a value that is not finite; calc_statistics stores the
\* four statistics if all of them are finite.  A factory that keeps the Ref
\* of its data() has borrow_mut() panic.  A function that calls data()
\* panics in its borrow() at the first magnitude; a function that calls
\* apply_complex_scaling_fn has the factory of that call invoked with the
\* cells and panics in its borrow_mut().
AfterFactory(s, kind, args, ref, calls) ==
    IF ref \/ kind = "sub_min_keeping_ref" THEN Aborted(s, "already borrowed", calls)
    ELSE IF kind = "sub_min_reading_data"
         THEN Aborted(s, "already mutably borrowed", calls)
    ELSE IF kind = "sub_min_rescaling"
         THEN Aborted(s, "already borrowed", calls \o <<FactoryArgs(s)>>)
    ELSE AfterLoop(s, ScaleLoop(s.data, 1, FnOf(kind), args[1], args[2], args[3], args[4]),
                   calls)

\* The calls of apply_complex_scaling_fn that return one after the other
\* during one call with the factory `kind`, by the factory of each: the
\* factory that rescales has its call of sub_avg return before its own.
CallOrder(kind) ==
    IF kind = "rescale_sub_avg_then_div_max" THEN <<"sub_avg", kind>> ELSE <<kind>>

\* The calls `kinds` from the return of their factories on, one after the
\* other, every factory having been called with args; the first panic ends
\* them all.
RECURSIVE AfterFactories(_, _, _, _, _)
RECURSIVE NextCall(_, _, _, _)
AfterFactories(s, kinds, args, ref, calls) ==
    NextCall(AfterFactory(s, Head(kinds), args, ref, calls), Tail(kinds), args, ref)

\* The call before has ended as r: the calls `kinds` follow if it returned.
NextCall(r, kinds, args, ref) ==
    IF r.ok /\ kinds # <<>> THEN AfterFactories(r.s, kinds, args, ref, r.calls)
    ELSE r

\* One call of apply_complex_scaling_fn(kind) on the fields s, from its
\* first line to its return or its panic: the new fields, and the argument
\* tuples of the factories in the order they were called.  The factory that
\* rescales is called with the cells of s, calls the factory of sub_avg
\* with the same cells, has that call run to its end (or to its panic) and
\* returns the function for the arguments it was called with.
RescaleOutcome(s, kind, ref) ==
    AfterFactories(s, CallOrder(kind), FactoryArgs(s), ref,
                   [k \in 1..Len(CallOrder(kind)) |-> FactoryArgs(s)])

\* A rescale that leaves the cached statistics as they were.
ApplyComplexScalingFnMutStale(kind) ==
    /\ phase = "ready"
    /\ rescales + Calls(kind) <= MaxRescales
    /\ \E r \in {RescaleOutcome(Current, kind, data_ref > 0)} :
           /\ data' = r.s.data
           /\ phase' = (IF r.ok THEN "ready" ELSE "panicked")
           /\ last' = Call("apply_complex_scaling_fn", 0, kind,
                           IF r.ok THEN Returned(<<>>) ELSE Panicked(r.why))
           /\ factory_args' = r.calls
           /\ rescales' = rescales + Len(r.calls)
    /\ UNCHANGED <<input, data_ref, frequency_resolution, stats, job>>

\* apply_complex_scaling_fn(factory), the whole call: the factory is called
\* with the cached statistics, its function replaces every magnitude,
\* calc_statistics runs.  Whatever the closures do to the spectrum is part
\* of the call.
ApplyComplexScalingFn(kind) ==
    /\ phase = "ready"
    /\ rescales + Calls(kind) <= MaxRescales
    /\ \E r \in {RescaleOutcome(Current, kind, data_ref > 0)} :
           /\ data' = r.s.data
           /\ average' = r.s.average
           /\ median' = r.s.median
           /\ min' = r.s.min
           /\ max' = r.s.max
           /\ phase' = (IF r.ok THEN "ready" ELSE "panicked")
           /\ last' = Call("apply_complex_scaling_fn", 0, kind,
                           IF r.ok THEN Returned(<<>>) ELSE Panicked(r.why))
           /\ factory_args' = r.calls
           /\ rescales' = rescales + Len(r.calls)
    /\ UNCHANGED <<input, data_ref, frequency_resolution, job>>

\* A call of freq_val_exact(search_fr).
FreqValExactCall(search_fr) ==
    /\ phase = "ready"
    /\ \E r \in {FreqValExact(data, search_fr)} :
           /\ last' = Call("freq_val_exact", search_fr, "", r)
           /\ phase' = (IF r.ok THEN "ready" ELSE "panicked")
    /\ UNCHANGED <<input, data_ref, data, frequency_resolution, stats, rescales, factory_args, job>>

\* A call of freq_val_closest(search_fr).
FreqValClosestCall(search_fr) ==
    /\ phase = "ready"
    /\ \E r \in {FreqValClosest(data, frequency_resolution, search_fr)} :
           /\ last' = Call("freq_val_closest", search_fr, "", r)
           /\ phase' = (IF r.ok THEN "ready" ELSE "panicked")
    /\ UNCHANGED <<input, data_ref, data, frequency_resolution, stats, rescales, factory_args, job>>

Next == \E kind \in Factories \cup ReentrantFactories : ApplyComplexScalingFn(kind)

Spec == Init /\ [][Next]_vars

NextLookup ==
    \E f \in Queries(data, frequency_resolution) :
        \/ FreqValExactCall(f)
        \/ FreqValClosestCall(f)

SpecLookup == InitLookup /\ [][NextLookup]_vars

\* ------------------------------------------------------------------------
\* The read operations, and to_map
\* ------------------------------------------------------------------------

\* A u32 is the pair <<high 16 bits, low 16 bits>>; u32::MAX is
\* <<65535, 65535>>.
\* `x as u32`: the float truncated towards zero; NaN and everything below 1
\* give 0, everything from 2^32 on gives u32::MAX.
AsU32(x) ==
    IF IsNaN(x) \/ x <= 0 THEN <<0, 0>>
    ELSE IF x = PosInf \/ Expo(x) > 8 THEN <<65535, 65535>>
    ELSE IF Expo(x) >= 0
         THEN <<Mant(x) \div 2^(16 - Expo(x)),
                (Mant(x) % 2^(16 - Expo(x))) * 2^Expo(x)>>
    ELSE IF Expo(x) < -30 THEN <<0, 0>>
    ELSE <<(Mant(x) \div 2^(-Expo(x))) \div 65536,
           (Mant(x) \div 2^(-Expo(x))) % 65536>>

\* Key functions a caller passes to to_map: none (the default `fr as u32`),
\* the frequency times 1000 (the example of the documentation), the
\* frequency in hundreds, and the parity of the truncated frequency.
KeyFns == {"default", "times1000", "hundreds", "parity"}

\* The key of the frequency fr under key_fn.
KeyOf(key_fn, fr) ==
    CASE key_fn = "default" -> AsU32(fr)
      [] key_fn = "times1000" -> AsU32(FMul(fr, FromInt(1000)))
      [] key_fn = "hundreds" -> AsU32(FDiv(fr, FromInt(100)))
      [] key_fn = "parity" -> <<0, AsU32(fr)[2] % 2>>

\* An insert that keeps the entry a key already has.
InsertMutKeepFirst(map, k, v) ==
    [x \in (DOMAIN map) \cup {k} |-> IF x \in DOMAIN map THEN map[x] ELSE v]

\* BTreeMap::insert: the entry of k is replaced.
Insert(map, k, v) ==
    [x \in (DOMAIN map) \cup {k} |-> IF x = k THEN v ELSE map[x]]

\* collect() into the BTreeMap: the pairs inserted in index order.
RECURSIVE CollectMap(_, _, _)
CollectMap(d, i, key_fn) ==
    IF i = 0 THEN [x \in {} |-> 0]
    ELSE Insert(CollectMap(d, i - 1, key_fn), KeyOf(key_fn, d[i][1]), d[i][2])

\* to_map(key_fn) on the bins d.
ToMap(d, key_fn) == CollectMap(d, Len(d), key_fn)

\* The operations that take &self and return a value.
DataReaders == {"data", "min_fr", "max_fr", "dc_component", "to_map",
                "freq_val_exact", "freq_val_closest"}
ReadOps ==
    {"average", "median", "min", "max", "range", "frequency_resolution"}
    \cup DataReaders

\* A RefCell that lends its content while it is mutably borrowed.
MutablyBorrowedMutNever == FALSE

\* The RefMut of data.borrow_mut() lives from the start of the loop of
\* apply_complex_scaling_fn to its end: the call in progress is in its loop,
\* or it was made by the per-element function of a call that is.
MutablyBorrowed ==
    \/ job.pc \in {"loop", "scale_fn"}
    \/ job.pc = "factory" /\ job.outer # <<>> /\ job.outer[1].pc = "scale_fn"

\* What the read operation op returns on the fields s; an operation that
\* borrows the bins fails while they are mutably borrowed.
ReadOutcomeOn(s, borrowed, op, arg, fn) ==
    IF op \in DataReaders /\ borrowed THEN Panicked("already mutably borrowed")
    ELSE CASE op = "average" -> Returned(<<s.average>>)
           [] op = "median" -> Returned(<<s.median>>)
           [] op = "min" -> Returned(s.min)
           [] op = "max" -> Returned(s.max)
           [] op = "range" -> RangeOn(s)
           [] op = "frequency_resolution" -> Returned(<<s.frequency_resolution>>)
           [] op = "data" -> Returned(s.data)
           [] op = "min_fr" -> Returned(<<s.data[1][1]>>)
           [] op = "max_fr" -> Returned(<<s.data[Len(s.data)][1]>>)
           [] op = "dc_component" ->
                  Returned(IF FEq(s.data[1][1], 0) THEN <<s.data[1][2]>> ELSE <<>>)
           [] op = "to_map" -> Returned(<<ToMap(s.data, fn)>>)
           [] op = "freq_val_exact" -> FreqValExact(s.data, arg)
           [] op = "freq_val_closest" ->
                  FreqValClosest(s.data, s.frequency_resolution, arg)

\* A getter that caches what it returns in the max cell.
ReadMutCaches(op, arg, fn) ==
    /\ phase = "ready"
    /\ job.pc \in {"none", "factory", "scale_fn"}
    /\ \E r \in {ReadOutcomeOn(Current, MutablyBorrowed, op, arg, fn)} :
           /\ last' = Call(op, arg, fn, r)
           /\ phase' = (IF r.ok THEN "ready" ELSE "panicked")
           /\ max' = (IF op = "range" THEN <<max[1], r.out[1]>> ELSE max)
    /\ UNCHANGED <<input, data_ref, data, frequency_resolution, average, median, min,
                   rescales, factory_args, job>>

\* A call of the read operation op, by the owner of the spectrum or from
\* inside the factory or the per-element function of a rescale in progress.
\* The Ref that data() returns is alive until its holder, the owner or a
\* closure, drops it (DropRef), which may be after the closure has returned.
Read(op, arg, fn) ==
    /\ phase = "ready"
    /\ job.pc \in {"none", "factory", "scale_fn"}
    /\ op = "data" => data_ref < MaxRefs
    /\ \E r \in {ReadOutcomeOn(Current, MutablyBorrowed, op, arg, fn)} :
           /\ last' = Call(op, arg, fn, r)
           /\ phase' = (IF r.ok THEN "ready" ELSE "panicked")
           /\ data_ref' = (IF op = "data" /\ r.ok THEN data_ref + 1 ELSE data_ref)
    /\ UNCHANGED <<input, data, frequency_resolution, stats, rescales,
                   factory_args, job>>

\* A Ref of data() is dropped, by the owner of the spectrum or by the
\* closure that is running.
DropRef ==
    /\ phase = "ready" /\ job.pc \in {"none", "factory", "scale_fn"} /\ data_ref > 0
    /\ data_ref' = data_ref - 1
    /\ UNCHANGED <<input, data, frequency_resolution, stats, phase, rescales,
                   last, factory_args, job>>

\* ------------------------------------------------------------------------
\* apply_complex_scaling_fn, step by step
\* ------------------------------------------------------------------------

\* A call of apply_complex_scaling_fn(kind) at its first line: the four
\* cells have been read and the factory is running with them.  `outer` is
\* the call whose closure made this one (<<>>: the owner of the spectrum
\* made it), `nested` whether the factory has made its own call, `pre` the
\* fields as the last call to return left them (once the loop runs: as
\* they were at its start), `st` the result of calc_statistics.
Frame(kind, outer) ==
    [pc |-> "factory", kind |-> kind, args |-> FactoryArgs(Current),
     i |-> 1, pre |-> Current, st |-> <<>>, nested |-> FALSE, outer |-> outer]

\* The panic of a step of the rescale: it unwinds every call in progress.
Abort(why) ==
    /\ phase' = "panicked"
    /\ last' = Call("apply_complex_scaling_fn", 0, job.kind, Panicked(why))

\* apply_complex_scaling_fn is entered by the owner of the spectrum.
RescaleEnter(kind) ==
    /\ phase = "ready" /\ job.pc = "none"
    /\ rescales + Calls(kind) <= MaxRescales
    /\ job' = Frame(kind, <<>>)
    /\ factory_args' = <<FactoryArgs(Current)>>
    /\ last' = Call("apply_complex_scaling_fn", 0, kind,
                    [ok |-> TRUE, out |-> <<>>, why |-> "running"])
    /\ rescales' = rescales + 1
    /\ UNCHANGED <<input, data_ref, data, frequency_resolution, stats, phase>>

\* The factory that rescales calls apply_complex_scaling_fn(sub_avg).
RescaleFromFactory ==
    /\ phase = "ready" /\ job.pc = "factory"
    /\ job.kind = "rescale_sub_avg_then_div_max" /\ ~job.nested
    /\ job' = Frame("sub_avg", <<[job EXCEPT !.nested = TRUE]>>)
    /\ factory_args' = factory_args \o <<FactoryArgs(Current)>>
    /\ last' = Call("apply_complex_scaling_fn", 0, "sub_avg",
                    [ok |-> TRUE, out |-> <<>>, why |-> "running"])
    /\ rescales' = rescales + 1
    /\ UNCHANGED <<input, data_ref, data, frequency_resolution, stats, phase>>

\* The per-element function that rescales calls
\* apply_complex_scaling_fn(sub_min).
RescaleFromScaleFn ==
    /\ phase = "ready" /\ job.pc = "scale_fn"
    /\ job.kind = "sub_min_rescaling"
    /\ job' = Frame("sub_min", <<job>>)
    /\ factory_args' = factory_args \o <<FactoryArgs(Current)>>
    /\ last' = Call("apply_complex_scaling_fn", 0, "sub_min",
                    [ok |-> TRUE, out |-> <<>>, why |-> "running"])
    /\ rescales' = rescales + 1
    /\ UNCHANGED <<input, data_ref, data, frequency_resolution, stats, phase>>

\* The factory returns scale_fn, the factory that rescales after its own
\* call, the factory that keeps a Ref with a Ref of its data() alive;
\* data.borrow_mut() panics if the bins are borrowed, by a Ref of data() or
\* by the loop of the calling rescale; otherwise the loop begins.
FactoryReturns ==
    /\ phase = "ready" /\ job.pc = "factory"
    /\ job.kind = "rescale_sub_avg_then_div_max" => job.nested
    /\ job.kind = "sub_min_keeping_ref" => data_ref > 0
    /\ IF data_ref > 0 \/ MutablyBorrowed
       THEN Abort("already borrowed") /\ UNCHANGED job
       ELSE job' = [job EXCEPT !.pc = "loop", !.pre = Current] /\ UNCHANGED <<phase, last>>
    /\ UNCHANGED <<input, data_ref, data, frequency_resolution, stats, rescales,
                   factory_args>>

\* The loop calls scale_fn on the next magnitude.
EnterScaleFn ==
    /\ phase = "ready" /\ job.pc = "loop" /\ job.i <= Len(data)
    /\ job' = [job EXCEPT !.pc = "scale_fn"]
    /\ UNCHANGED <<input, data_ref, data, frequency_resolution, stats, phase, rescales,
                   last, factory_args>>

\* What scale_fn returns on the magnitude x: the function that calls data()
\* panics in borrow().
ScaleFnOutcome(kind, args, x) ==
    IF kind = "sub_min_reading_data" THEN Panicked("already mutably borrowed")
    ELSE Returned(<<ScaleFn(FnOf(kind), args[1], args[2], args[3], args[4], x)>>)

\* scale_fn returns and its result is written over the magnitude; a result
\* that is not finite fails in FrequencyValue::from.
LeaveScaleFn ==
    /\ phase = "ready" /\ job.pc = "scale_fn"
    /\ job.kind # "sub_min_rescaling"
    /\ \E y \in {ScaleFnOutcome(job.kind, job.args, data[job.i][2])} :
          IF y.ok /\ FromOk(y.out[1])
          THEN /\ data' = [data EXCEPT ![job.i] = <<data[job.i][1], y.out[1]>>]
               /\ job' = [job EXCEPT !.pc = "loop", !.i = job.i + 1]
               /\ UNCHANGED <<phase, last>>
          ELSE /\ Abort(IF y.ok THEN "not finite" ELSE y.why)
               /\ UNCHANGED <<data, job>>
    /\ UNCHANGED <<input, data_ref, frequency_resolution, stats, rescales, factory_args>>

\* The loop is over and the RefMut dropped; calc_statistics sorts a copy and
\* computes the four statistics.
LoopEnds ==
    /\ phase = "ready" /\ job.pc = "loop" /\ job.i > Len(data)
    /\ \E st \in {CalcStatistics(data)} :
          IF st.ok
          THEN /\ job' = [job EXCEPT !.pc = "store_min", !.st = st]
               /\ UNCHANGED <<phase, last>>
          ELSE /\ Abort("not finite")
               /\ UNCHANGED job
    /\ UNCHANGED <<input, data_ref, data, frequency_resolution, stats, rescales, factory_args>>

\* self.min.replace(min).
StoreMin ==
    /\ phase = "ready" /\ job.pc = "store_min"
    /\ min' = job.st.min
    /\ job' = [job EXCEPT !.pc = "store_max"]
    /\ UNCHANGED <<input, data_ref, data, frequency_resolution, average, median, max,
                   phase, rescales, last, factory_args>>

\* self.max.replace(max).
StoreMax ==
    /\ phase = "ready" /\ job.pc = "store_max"
    /\ max' = job.st.max
    /\ job' = [job EXCEPT !.pc = "store_average"]
    /\ UNCHANGED <<input, data_ref, data, frequency_resolution, average, median, min,
                   phase, rescales, last, factory_args>>

\* self.average.replace(average).
StoreAverage ==
    /\ phase = "ready" /\ job.pc = "store_average"
    /\ average' = job.st.average
    /\ job' = [job EXCEPT !.pc = "store_median"]
    /\ UNCHANGED <<input, data_ref, data, frequency_resolution, median, min, max,
                   phase, rescales, last, factory_args>>

\* self.median.replace(median); calc_statistics and the rescale return, to
\* the owner or into the factory that made the call.
StoreMedian ==
    /\ phase = "ready" /\ job.pc = "store_median"
    /\ median' = job.st.median
    /\ job' = (IF job.outer = <<>> THEN NoJob
               ELSE [job.outer[1] EXCEPT !.pre = [Current EXCEPT !.median = job.st.median]])
    /\ last' = Call("apply_complex_scaling_fn", 0, job.kind, Returned(<<>>))
    /\ UNCHANGED <<input, data_ref, data, frequency_resolution, average, min, max,
                   phase, rescales, factory_args>>

\* The reads a factory or a per-element function makes of the spectrum it
\* is rescaling: every read operation, the lookups at the second stored
\* frequency, to_map with the default key.
ReadInside ==
    /\ job.pc \in {"factory", "scale_fn"}
    /\ \E op \in ReadOps :
          Read(op,
               IF op \in {"freq_val_exact", "freq_val_closest"} THEN data[2][1] ELSE 0,
               IF op = "to_map" THEN "default" ELSE "")

\* Construction of the spectra whose rescale is followed step by step:
\* evenly spaced bins at 50 Hz, magnitudes in rotation.
InitRescale ==
    \E n \in 2..MaxLen, start \in Starts, k \in 0..2 :
        \E res \in {FftCalcFrequencyResolution(400, 8)} :
            \E bins \in {InputBins(Indices(n, start, 0), Rotation(n, k), res)} :
                New(bins, res) /\ factory_args = <<>> /\ job = NoJob

\* The owner of the spectrum calls data() between two rescales.
DataCall == job.pc = "none" /\ Read("data", 0, "")

NextRescale ==
    \/ \E kind \in Factories \cup ReentrantFactories : RescaleEnter(kind)
    \/ DataCall
    \/ DropRef
    \/ RescaleFromFactory
    \/ RescaleFromScaleFn
    \/ FactoryReturns
    \/ EnterScaleFn
    \/ LeaveScaleFn
    \/ LoopEnds
    \/ StoreMin
    \/ StoreMax
    \/ StoreAverage
    \/ StoreMedian
    \/ ReadInside

SpecRescale == InitRescale /\ [][NextRescale]_vars

\* ------------------------------------------------------------------------
\* A spectrum in the hands of its owner: reads, lookups and rescales
\* ------------------------------------------------------------------------

\* (sampling rate, sample count) pairs of the spectra that are read: 50 Hz,
\* and 0.5 Hz, at which neighbouring bins share their integer part.
ReaderRateAndLen == {<<400, 8>>, <<4, 8>>}

\* Query frequencies of the lookups: the lowest and the highest stored
\* frequency, one resolution outside either, and half a resolution above
\* the lowest.
ReaderQueries(d, res) ==
    {d[1][1], d[Len(d)][1], FSub(d[1][1], res), FAdd(d[Len(d)][1], res),
     FAdd(d[1][1], FMul(Half, res))}

\* A call of a getter, of min_fr, max_fr or dc_component.
GetterCall(op) == Read(op, 0, "")

\* A call of to_map(key_fn).
ToMapCall(key_fn) == Read("to_map", 0, key_fn)

\* Construction of the spectra that are read: both resolutions, evenly
\* spaced, magnitudes in rotation.
InitReaders ==
    \E n \in 2..MaxLen, start \in Starts, rl \in ReaderRateAndLen, k \in 0..2 :
        \E res \in {FftCalcFrequencyResolution(rl[1], rl[2])} :
            \E bins \in {InputBins(Indices(n, start, 0), Rotation(n, k), res)} :
                New(bins, res) /\ factory_args = <<>> /\ job = NoJob

NextReaders ==
    \/ \E op \in ReadOps \ {"to_map", "freq_val_exact", "freq_val_closest"} :
           GetterCall(op)
    \/ \E key_fn \in KeyFns : ToMapCall(key_fn)
    \/ \E f \in ReaderQueries(data, frequency_resolution) : FreqValExactCall(f)
    \/ \E f \in ReaderQueries(data, frequency_resolution) : FreqValClosestCall(f)
    \/ ApplyComplexScalingFn("div_max")
    \/ DropRef

SpecReaders == InitReaders /\ [][NextReaders]_vars

\* ------------------------------------------------------------------------
\* Statistics of magnitudes whose sums are rounded
\* ------------------------------------------------------------------------

\* 1.3333337 (0x3FAAAAAE): three times this value lies halfway between two
\* floats.
OneAndAThird == 127 * 2^23 + 2796206

\* Magnitudes of the bins the statistics are computed on.
StatMagnitudes == {FromInt(0), OneAndAThird, FromInt(7)}

\* Construction of the spectra: evenly spaced bins at 50 Hz, every
\* combination of the magnitudes.
InitStats ==
    \E n \in 2..MaxLen :
        \E vals \in [1..n -> StatMagnitudes] :
            \E res \in {FftCalcFrequencyResolution(400, 8)} :
                \E bins \in {InputBins(Indices(n, 0, 0), vals, res)} :
                    New(bins, res) /\ factory_args = <<>> /\ job = NoJob

SpecStats == InitStats /\ [][Next]_vars

\* ------------------------------------------------------------------------
\* samples_fft_to_spectrum, step by step
\* ------------------------------------------------------------------------

\* The constructor without its length assertion: a short sequence gets a
\* spectrum holding the placeholders.
NewOutcomeMutNoAssert(bins, res) ==
    IF Len(bins) < 2
    THEN [ok |-> TRUE, why |-> "", average |-> Placeholder, median |-> Placeholder,
          min |-> <<Placeholder, Placeholder>>, max |-> <<Placeholder, Placeholder>>]
    ELSE LET st == CalcStatistics(bins)
         IN  [ok |-> st.ok, why |-> IF st.ok THEN "" ELSE "not finite",
              average |-> st.average, median |-> st.median,
              min |-> st.min, max |-> st.max]

\* FrequencySpectrum::new(bins, res) as a callee: the assertion on the
\* length, the placeholders, calc_statistics.
NewOutcome(bins, res) ==
    IF Len(bins) < 2
    THEN [ok |-> FALSE, why |-> "length", average |-> Placeholder, median |-> Placeholder,
          min |-> <<Placeholder, Placeholder>>, max |-> <<Placeholder, Placeholder>>]
    ELSE LET st == CalcStatistics(bins)
         IN  [ok |-> st.ok, why |-> IF st.ok THEN "" ELSE "not finite",
              average |-> IF st.ok THEN st.average ELSE Placeholder,
              median |-> IF st.ok THEN st.median ELSE Placeholder,
              min |-> IF st.ok THEN st.min ELSE <<Placeholder, Placeholder>>,
              max |-> IF st.ok THEN st.max ELSE <<Placeholder, Placeholder>>]

\* No spectrum yet: an entry point has been called and has not constructed one.
NoSpectrum(op) ==
    /\ input = <<>>
    /\ data = <<>>
    /\ frequency_resolution = 0
    /\ average = Placeholder
    /\ median = Placeholder
    /\ min = <<Placeholder, Placeholder>>
    /\ max = <<Placeholder, Placeholder>>
    /\ phase = "building"
    /\ rescales = 0
    /\ last = Call(op, 0, "", Returned(<<>>))
    /\ factory_args = <<>>
    /\ data_ref = 0

\* The limits of a call: none, and every lower bound, upper bound and range
\* made of bin frequencies and frequencies between them; a lower and an
\* upper bound that are NaN.
Limits ==
    LET frs == {FromInt(0), FromInt(50), FromInt(75), FromInt(100), FromInt(200)}
    IN  {LimitAll, LimitMin(NaN), LimitMax(NaN), LimitRange(NaN, FromInt(100))}
        \cup {LimitMin(lo) : lo \in frs}
        \cup {LimitMax(hi) : hi \in frs}
        \cup {LimitRange(p[1], p[2]) : p \in {q \in frs \X frs : q[1] <= q[2]}}

\* Sample counts of the blocks: 0, the powers of two from 1 on, and 3.
SampleCounts == {2^k : k \in 0..MaxLog2Len} \cup {0, 3}

\* Lengths N of the buffer a call on len samples is instantiated with,
\* besides N = len: half of len, len + 1, and two and three times len.
BufferLens(len) == {len \div 2, len + 1, 2 * len, 3 * len} \ {len}

\* A call of samples_fft_to_spectrum::<N>(samples, sampling_rate, limit,
\* per_element_scaling_fn, total_scaling_fn) begins.
PipelineJob(n, samples, sampling_rate, limit, scaling, total) ==
    [pc |-> "start", n |-> n, samples |-> samples, sampling_rate |-> sampling_rate,
     limit |-> limit, scaling |-> scaling, total |-> total,
     fft_result |-> <<>>, bins |-> <<>>]

\* Calls of samples_fft_to_spectrum.  With N the number of samples: finite
\* blocks at 400 Hz with every limit and scaling, at 44100 Hz without a
\* limit, and blocks holding a NaN or an infinity.  With another N: finite
\* blocks at 400 Hz without a limit.
InitMapper ==
    /\ NoSpectrum("samples_fft_to_spectrum")
    /\ \E n \in SampleCounts :
          \/ \E samples \in GoodSamples(n), limit \in Limits,
                scaling \in SimpleFns, total \in {"none", "sub_min", "div_max"} :
                 job = PipelineJob(n, samples, 400, limit, scaling, total)
          \/ \E samples \in GoodSamples(n), scaling \in SimpleFns :
                 job = PipelineJob(n, samples, 44100, LimitAll, scaling, "none")
          \/ \E samples \in BadSamples(n) :
                 job = PipelineJob(n, samples, 400, LimitAll, "none", "none")
          \/ \E samples \in GoodSamples(n), other \in BufferLens(n) :
                 job = PipelineJob(other, samples, 400, LimitAll, "none", "none")

\* The panic of a step of the entry point.
Fail(op, why) ==
    /\ phase' = "panicked"
    /\ last' = Call(op, 0, "", Panicked(why))

\* The two assertions on the samples.
CheckSamples ==
    /\ phase = "building" /\ job.pc = "start"
    /\ IF HasNaN(job.samples)
       THEN Fail("samples_fft_to_spectrum", "NaN") /\ UNCHANGED job
       ELSE IF HasInfinite(job.samples)
       THEN Fail("samples_fft_to_spectrum", "Infinity") /\ UNCHANGED job
       ELSE job' = [job EXCEPT !.pc = "checked"] /\ UNCHANGED <<phase, last>>
    /\ UNCHANGED <<input, data_ref, data, frequency_resolution, stats, rescales, factory_args>>

\* samples_to_complex::<N>(samples): an array of N zeros with the samples
\* written over its first places; writing the sample at index N is out of
\* bounds.
SamplesToComplex(n, samples) ==
    IF Len(samples) > n THEN Panicked("index out of bounds")
    ELSE Returned([i \in 1..n |-> IF i <= Len(samples) THEN samples[i] ELSE 0])

\* samples_to_complex, Radix4::new(samples.len()), which asserts a power of
\* two, and fft.process(&mut buffer), which transforms the buffer in place
\* chunk by chunk, each chunk samples.len() values long, and panics if the
\* length of the buffer is no multiple of that.
ApplyFft ==
    /\ phase = "building" /\ job.pc = "checked"
    /\ \E buffer \in {SamplesToComplex(job.n, job.samples)}, fft_len \in {Len(job.samples)} :
          IF ~buffer.ok
          THEN Fail("samples_fft_to_spectrum", buffer.why) /\ UNCHANGED job
          ELSE IF ~IsPowerOfTwo(fft_len)
          THEN Fail("samples_fft_to_spectrum", "not a power of two") /\ UNCHANGED job
          ELSE IF job.n % fft_len # 0
          THEN Fail("samples_fft_to_spectrum", "buffer length") /\ UNCHANGED job
          ELSE /\ job' = [job EXCEPT
                            !.pc = "transformed",
                            !.fft_result =
                                [i \in 1..job.n |->
                                    Dft(SubSeq(buffer.out,
                                               ((i - 1) \div fft_len) * fft_len + 1,
                                               ((i - 1) \div fft_len) * fft_len + fft_len))
                                       [((i - 1) % fft_len) + 1]]]
               /\ UNCHANGED <<phase, last>>
    /\ UNCHANGED <<input, data_ref, data, frequency_resolution, stats, rescales, factory_args>>

\* fft_result_to_spectrum up to collect().
MapToBins ==
    /\ phase = "building" /\ job.pc = "transformed"
    /\ \E r \in {MapBins(job.fft_result, job.sampling_rate, job.limit, job.scaling)} :
          IF r.ok
          THEN /\ job' = [job EXCEPT !.pc = "mapped", !.bins = r.bins]
               /\ UNCHANGED <<phase, last>>
          ELSE Fail("samples_fft_to_spectrum", "not finite") /\ UNCHANGED job
    /\ UNCHANGED <<input, data_ref, data, frequency_resolution, stats, rescales, factory_args>>

\* FrequencySpectrum::new(frequency_vec, frequency_resolution).
Construct ==
    /\ phase = "building" /\ job.pc = "mapped"
    /\ \E res \in {FftCalcFrequencyResolution(job.sampling_rate, Len(job.fft_result))} :
       \E c \in {NewOutcome(job.bins, res)} :
          /\ input' = job.bins
          /\ data' = job.bins
          /\ frequency_resolution' = res
          /\ average' = c.average
          /\ median' = c.median
          /\ min' = c.min
          /\ max' = c.max
          /\ phase' = (IF c.ok THEN "ready" ELSE "panicked")
          /\ last' = Call("new", 0, "", IF c.ok THEN Returned(<<>>) ELSE Panicked(c.why))
    /\ job' = [job EXCEPT !.pc = "constructed"]
    /\ UNCHANGED <<rescales, factory_args, data_ref>>

\* The optional total scaling at the end of fft_result_to_spectrum.
TotalScaling ==
    /\ job.pc = "constructed" /\ job.total # "none" /\ rescales = 0
    /\ ApplyComplexScalingFn(job.total)

NextMapper ==
    \/ CheckSamples
    \/ ApplyFft
    \/ MapToBins
    \/ Construct
    \/ TotalScaling

SpecMapper == InitMapper /\ [][NextMapper]_vars

\* ------------------------------------------------------------------------
\* The real-FFT adapter's fft_apply
\* ------------------------------------------------------------------------

\* Sample counts fft_apply is called with: the powers of two up to 32768
\* and counts that are no powers of two.
AdapterCounts ==
    {2^k : k \in 0..15} \cup {0, 3, 5, 6, 7, 12, 24, 100, 1000, 16383, 16385}

AdapterSamples(n) ==
    IF n <= 4 THEN GoodSamples(n) ELSE {AlternatingBlock(n, lv) : lv \in SampleLevels}

\* A call of fft_apply(samples) begins.
InitFft ==
    /\ NoSpectrum("fft_apply")
    /\ \E n \in AdapterCounts : \E samples \in AdapterSamples(n) :
          job = [pc |-> "fft_start", samples |-> samples, backend |-> <<>>, res |-> <<>>]

\* fft_apply runs: job.backend is what rfft_n returned, job.res the result.
FftApplyCall ==
    /\ phase = "building" /\ job.pc = "fft_start"
    /\ \E r \in {FftApply(job.samples)} :
          IF r.ok
          THEN /\ job' = [job EXCEPT !.pc = "fft_done", !.backend = Rfft(job.samples),
                                     !.res = r.out]
               /\ last' = Call("fft_apply", 0, "", Returned(<<>>))
               /\ UNCHANGED phase
          ELSE Fail("fft_apply", r.why) /\ UNCHANGED job
    /\ UNCHANGED <<input, data_ref, data, frequency_resolution, stats, rescales, factory_args>>

NextFft == FftApplyCall

SpecFft == InitFft /\ [][NextFft]_vars

\* ------------------------------------------------------------------------
\* Properties of the statistics (specification Spec)
\* ------------------------------------------------------------------------

\* v is the k-th smallest magnitude of the bins d (counting repetitions).
IsKthSmallest(d, k, v) ==
    /\ \E i \in 1..Len(d) : d[i][2] = v
    /\ Cardinality({i \in 1..Len(d) : FLt(d[i][2], v)}) <= k - 1
    /\ Cardinality({i \in 1..Len(d) : FLe(d[i][2], v)}) >= k

\* C1: after construction and after every rescale call that returned, the
\* values min(), max(), average() and median() return are the ones
\* calc_statistics computes from the bins stored now, and no getter returns
\* the constructor's placeholder bin (frequency -1).
C1_StatisticsCurrent ==
    phase = "ready" =>
        /\ GetMin = CalcStatistics(data).min
        /\ GetMax = CalcStatistics(data).max
        /\ GetAverage = CalcStatistics(data).average
        /\ GetMedian = CalcStatistics(data).median
        /\ GetMin[1] # Placeholder /\ GetMax[1] # Placeholder

\* C1 happens: two rescale calls returned and each changed the statistics.
C1_Witness ==
    /\ phase = "ready" /\ rescales = 2
    /\ GetMin[2] # GetMax[2]
    /\ GetAverage # CalcStatistics(input).average
    /\ GetMedian # CalcStatistics(input).median
    /\ GetMax[2] # CalcStatistics(input).max[2]
    /\ GetMin[2] # CalcStatistics(input).min[2]

\* C2: the stored sequence has the length of the constructor input and the
\* same frequency at every index, so it stays sorted ascending by frequency,
\* after construction and after any sequence of rescale calls.
C2_FrequenciesKept ==
    /\ Len(data) = Len(input)
    /\ \A i \in 1..Len(data) : data[i][1] = input[i][1]
    /\ \A i \in 1..(Len(data) - 1) : FLt(data[i][1], data[i + 1][1])

\* C2 happens: after a rescale the magnitudes are not ascending, so a sort
\* by value in place would have moved a bin.
C2_Witness ==
    /\ phase = "ready" /\ rescales >= 1
    /\ \E i \in 1..(Len(data) - 1) : FGt(data[i][2], data[i + 1][2])
    /\ \E i \in 1..Len(data) : data[i][2] # input[i][2]

\* C3 as stated: min() is a stored bin holding the smallest stored
\* magnitude, max() a stored bin holding the largest, min().value <=
\* max().value and range() returns their difference, which is not negative.
C3_Original ==
    phase = "ready" =>
        /\ \E i \in 1..Len(data) : data[i] = GetMin
        /\ \E i \in 1..Len(data) : data[i] = GetMax
        /\ \A i \in 1..Len(data) : FLe(GetMin[2], data[i][2]) /\ FLe(data[i][2], GetMax[2])
        /\ FLe(GetMin[2], GetMax[2])
        /\ GetRange = Returned(<<FSub(GetMax[2], GetMin[2])>>)
        /\ FLe(0, FSub(GetMax[2], GetMin[2]))

\* C3, amended: min() is a stored bin holding the smallest stored magnitude,
\* max() a stored bin holding the largest, min().value <= max().value;
\* range() returns their f32 difference, which is not negative, when that
\* difference is finite, and fails when it is not.
C3_MinMax ==
    phase = "ready" =>
        /\ \E i \in 1..Len(data) : data[i] = GetMin
        /\ \E i \in 1..Len(data) : data[i] = GetMax
        /\ \A i \in 1..Len(data) : FLe(GetMin[2], data[i][2]) /\ FLe(data[i][2], GetMax[2])
        /\ FLe(GetMin[2], GetMax[2])
        /\ FLe(0, FSub(GetMax[2], GetMin[2]))
        /\ IF IsFinite(FSub(GetMax[2], GetMin[2]))
           THEN GetRange = Returned(<<FSub(GetMax[2], GetMin[2])>>)
           ELSE ~GetRange.ok

\* C3, the failing range happens: the bins hold -f32::MAX and f32::MAX,
\* their difference is infinite and range() fails.
C3_WitnessRangeFails ==
    /\ phase = "ready" /\ rescales = 0
    /\ GetMin[2] = -F32Max /\ GetMax[2] = F32Max
    /\ FSub(GetMax[2], GetMin[2]) = PosInf
    /\ GetRange = Panicked("not finite")

\* C3 happens: after a rescale the smallest magnitude is negative, the
\* largest positive, and neither sits in the first or the last bin.
C3_Witness ==
    /\ phase = "ready" /\ rescales >= 1
    /\ FLt(GetMin[2], 0) /\ FLt(0, GetMax[2])
    /\ GetMin # data[1] /\ GetMax # data[Len(data)]
    /\ GetMin # data[Len(data)] /\ GetMax # data[1]

\* C4: average() is the sum of all stored magnitudes divided by the number
\* of bins, in f32: the magnitudes added up from 0.0 in ascending order (the
\* order matters for the last bit) and the sum divided by the length.
C4_Average ==
    phase = "ready" =>
        \E p \in Permutations(1..Len(data)) :
            /\ \A i \in 1..(Len(data) - 1) : FLe(data[p[i]][2], data[p[i + 1]][2])
            /\ GetAverage = FDiv(FoldSum([i \in 1..Len(data) |-> data[p[i]]]),
                                 FromInt(Len(data)))

\* C4 happens: after a rescale, with three or more bins of magnitudes that
\* are not all equal and an average that is none of them.
C4_Witness ==
    /\ phase = "ready" /\ rescales >= 1 /\ Len(data) >= 3
    /\ \A i \in 1..Len(data) : data[i][2] # GetAverage
    /\ GetAverage # 0

\* C5: for an even number of bins, median() is the mean of the two middle
\* magnitudes in ascending order (the L/2-th and the (L/2 + 1)-th smallest).
C5_MedianEven ==
    (phase = "ready" /\ Len(data) % 2 = 0) =>
        \E i, j \in 1..Len(data) :
            /\ IsKthSmallest(data, Len(data) \div 2, data[i][2])
            /\ IsKthSmallest(data, Len(data) \div 2 + 1, data[j][2])
            /\ GetMedian = FDiv(FAdd(data[i][2], data[j][2]), FromInt(2))

\* C5 happens: four bins after a rescale, the two middle magnitudes differ
\* and the median lies strictly between them.
C5_Witness ==
    /\ phase = "ready" /\ rescales >= 1 /\ Len(data) = 4
    /\ \E i, j \in 1..4 :
           /\ IsKthSmallest(data, 2, data[i][2])
           /\ IsKthSmallest(data, 3, data[j][2])
           /\ FLt(data[i][2], GetMedian) /\ FLt(GetMedian, data[j][2])

\* ------------------------------------------------------------------------
\* Properties of the lookups (specification SpecLookup)
\* ------------------------------------------------------------------------

Lookups == {"freq_val_exact", "freq_val_closest"}
LowestFr == data[1][1]
HighestFr == data[Len(data)][1]

\* a and b are at most three ULPs apart as float_cmp counts them: bit
\* patterns of one sign, at most 3 apart.
WithinThreeUlps(a, b) == Sign(a) = Sign(b) /\ Abs(Mag(a) - Mag(b)) <= 3

\* The last call looked up a frequency strictly between the frequencies of
\* the neighbours w and w + 1.
StrictlyInside(w) == FLt(data[w][1], last.arg) /\ FLt(last.arg, data[w + 1][1])

\* The last call's frequency is no stored frequency, lies in the range, and
\* w is the first window whose upper frequency is not below it.
FirstPairFor(w) ==
    /\ FLe(LowestFr, last.arg) /\ FLe(last.arg, HighestFr)
    /\ \A i \in 1..Len(data) : data[i][1] # last.arg
    /\ FLe(last.arg, data[w + 1][1])
    /\ \A j \in 1..(w - 1) : FLt(data[j + 1][1], last.arg)

\* |a - b| in f32.
Distance(a, b) == Mag(FSub(a, b))

\* C6: freq_val_exact called with exactly the frequency of a stored bin
\* (first, last or interior) returns exactly that bin's value.
C6_ExactAtStored ==
    \A i \in 1..Len(data) :
        (last.op = "freq_val_exact" /\ last.arg = data[i][1]) =>
            (last.ok /\ last.out = <<data[i][2]>>)

\* C7: a lookup of a frequency below the lowest or above the highest stored
\* frequency fails, however close to the boundary it is.
C7_OutOfRangeAlwaysFails ==
    (last.op \in Lookups /\ (FLt(last.arg, LowestFr) \/ FGt(last.arg, HighestFr))) =>
        ~last.ok

\* C8 as claimed: for f strictly between two neighbours A and B,
\* freq_val_exact(f) returns A.value + (B.value - A.value) /
\* (B.frequency - A.frequency) * (f - A.frequency).
C8_SpecForm ==
    \A w \in 1..(Len(data) - 1) :
        (last.op = "freq_val_exact" /\ StrictlyInside(w)) =>
            /\ last.ok
            /\ last.out = <<FAdd(data[w][2],
                                 FMul(FDiv(FSub(data[w + 1][2], data[w][2]),
                                           FSub(data[w + 1][1], data[w][1])),
                                      FSub(last.arg, data[w][1])))>>

\* slope * f + (A.value - slope * A.frequency) for the neighbours w and
\* w + 1, slope = (B.value - A.value) / (B.frequency - A.frequency), every
\* operation rounded to f32.
InterceptFormAt(w, f) ==
    FAdd(FMul(FDiv(FSub(data[w + 1][2], data[w][2]),
                   FSub(data[w + 1][1], data[w][1])),
              f),
         FSub(data[w][2],
              FMul(FDiv(FSub(data[w + 1][2], data[w][2]),
                        FSub(data[w + 1][1], data[w][1])),
                   data[w][1])))

\* C8 as amended: for f strictly between two neighbours A and B and more
\* than three ULPs from A.frequency and from the lowest and the highest
\* frequency, freq_val_exact(f) returns slope * f + (A.value - slope *
\* A.frequency), slope = (B.value - A.value) / (B.frequency - A.frequency),
\* every operation rounded to f32, if that result is finite, and fails if
\* it is infinite or NaN; within three ULPs of one of those frequencies it
\* returns that bin's value.
C8_InterceptForm ==
    \A w \in 1..(Len(data) - 1) :
        (last.op = "freq_val_exact" /\ StrictlyInside(w)) =>
            IF WithinThreeUlps(last.arg, LowestFr)
            THEN last.ok /\ last.out = <<data[1][2]>>
            ELSE IF WithinThreeUlps(last.arg, HighestFr)
            THEN last.ok /\ last.out = <<data[Len(data)][2]>>
            ELSE IF WithinThreeUlps(last.arg, data[w][1])
            THEN last.ok /\ last.out = <<data[w][2]>>
            ELSE IF IsNaN(InterceptFormAt(w, last.arg)) \/ IsInfinite(InterceptFormAt(w, last.arg))
            THEN ~last.ok /\ last.why = "not finite"
            ELSE last.ok /\ last.out = <<InterceptFormAt(w, last.arg)>>

\* C8 happens: an interpolation inside a window whose lower frequency is not
\* 0 returned a value strictly between the two magnitudes.
C8_Witness ==
    \E w \in 1..(Len(data) - 1) :
        /\ last.op = "freq_val_exact" /\ StrictlyInside(w) /\ last.ok
        /\ data[w][1] # 0
        /\ ~WithinThreeUlps(last.arg, data[w][1])
        /\ \/ FLt(data[w][2], last.out[1]) /\ FLt(last.out[1], data[w + 1][2])
           \/ FLt(data[w + 1][2], last.out[1]) /\ FLt(last.out[1], data[w][2])

\* C8, the failure happens: between the bins (0 Hz, -f32::MAX) and
\* (50 Hz, f32::MAX) the slope is infinite and the lookup failed.
C8_WitnessNotFinite ==
    /\ last.op = "freq_val_exact" /\ ~last.ok /\ last.why = "not finite"
    /\ Len(data) = 2 /\ StrictlyInside(1)
    /\ data[1] = <<0, -F32Max>> /\ data[2][2] = F32Max

\* C8, the failure happens with a finite slope: between the bins
\* (50 Hz, 0) and (100 Hz, f32::MAX) the product slope * f leaves the range
\* of f32 although the line stays below f32::MAX.
C8_WitnessOverflow ==
    /\ last.op = "freq_val_exact" /\ ~last.ok /\ last.why = "not finite"
    /\ Len(data) = 2 /\ StrictlyInside(1)
    /\ data[1][1] # 0 /\ data[1][2] = 0 /\ data[2][2] = F32Max

\* C9: for f in the range and equal to no stored frequency, with (A, B) the
\* first neighbours such that f <= B.frequency, freq_val_closest(f) returns
\* A when f - A.frequency is less than half the resolution and B otherwise,
\* B also when it is exactly half.
C9_ClosestByHalfResolution ==
    \A w \in 1..(Len(data) - 1) :
        (last.op = "freq_val_closest" /\ FirstPairFor(w)) =>
            /\ last.ok
            /\ last.out = IF FLt(FSub(last.arg, data[w][1]),
                                 FMul(Half, frequency_resolution))
                          THEN data[w] ELSE data[w + 1]

\* C9 happens: a lookup exactly half a resolution above A returned B.
C9_Witness ==
    \E w \in 1..(Len(data) - 1) :
        /\ last.op = "freq_val_closest" /\ FirstPairFor(w) /\ last.ok
        /\ FSub(last.arg, data[w][1]) = FMul(Half, frequency_resolution)
        /\ last.out = data[w + 1]
        /\ data[w][1] # 0

\* C10: for f within [min_fr, max_fr], freq_val_closest(f) returns a stored
\* bin such that no other stored bin's frequency is strictly closer to f;
\* for f equal to a stored frequency it returns that bin.
C10_ClosestIsNearest ==
    (/\ last.op = "freq_val_closest"
     /\ FLe(LowestFr, last.arg) /\ FLe(last.arg, HighestFr)) =>
        /\ last.ok
        /\ \E i \in 1..Len(data) :
               /\ last.out = data[i]
               /\ \A j \in 1..Len(data) :
                      ~(Distance(last.arg, data[j][1]) < Distance(last.arg, data[i][1]))

\* ------------------------------------------------------------------------
\* Properties of dc_component and of the rescale (specification Spec)
\* ------------------------------------------------------------------------

\* C11: dc_component() is Some(value of the first stored bin) exactly when
\* the first stored bin's frequency is exactly 0 and None otherwise; after
\* a rescale the value is the rescaled one, the value stored now.
C11_DcComponent ==
    phase = "ready" =>
        /\ IsZero(input[1][1]) => DcComponent = <<data[1][2]>>
        /\ ~IsZero(input[1][1]) => DcComponent = <<>>

\* C11 happens: the first bin is at 0 Hz, a rescale changed its value and
\* dc_component() answers with the new one.
C11_Witness ==
    /\ phase = "ready" /\ rescales >= 1
    /\ input[1][1] = 0
    /\ data[1][2] # input[1][2]
    /\ DcComponent = <<data[1][2]>>

\* C11 at -0.0 Hz: the first bin's frequency is -0.0, which equals 0.0, and
\* dc_component() answers with its value.
C11_WitnessNegZero ==
    /\ phase = "ready" /\ input[1][1] = NegZero
    /\ DcComponent = <<data[1][2]>>

\* C11, the other case happens: the first bin is one ULP above 0 Hz and
\* dc_component() is None.
C11_WitnessNone ==
    phase = "ready" /\ input[1][1] = 1 /\ DcComponent = <<>>

\* The bins d with every magnitude m replaced by fn(m), fn the function of
\* the factory `kind` for the arguments args.
EveryMagnitude(d, kind, args) ==
    [i \in 1..Len(d) |->
        <<d[i][1], ScaleFn(kind, args[1], args[2], args[3], args[4], d[i][2])>>]

\* C13: every rescale call invokes its factory once, with (min.value,
\* max.value, average, median) as cached when the call starts; if it
\* returns, every bin's magnitude m has become fn(m) for that one function
\* and the statistics are those of the replaced magnitudes.  A factory that
\* itself rescales the spectrum has done so, in a call of its own, before
\* the magnitudes are replaced by its function.
C13_FactoryOnceThenAll ==
    [][(rescales' # rescales) =>
          /\ last'.op = "apply_complex_scaling_fn"
          /\ Len(factory_args') = rescales' - rescales
          /\ \A k \in 1..Len(factory_args') :
                 factory_args'[k] = <<min[2], max[2], average, median>>
          /\ last'.ok =>
                /\ Len(factory_args') = Calls(last'.fn)
                /\ data' =
                      (IF last'.fn = "rescale_sub_avg_then_div_max"
                       THEN EveryMagnitude(
                                EveryMagnitude(data, "sub_avg",
                                               <<min[2], max[2], average, median>>),
                                "div_max", <<min[2], max[2], average, median>>)
                       ELSE EveryMagnitude(data, FnOf(last'.fn),
                                           <<min[2], max[2], average, median>>))
                /\ average' = AverageOf(SortByValue(data'))
                /\ median' = MedianOf(SortByValue(data'))
                /\ min' = SortByValue(data')[1]
                /\ max' = SortByValue(data')[Len(data')]]_vars

\* C13, the factory that rescales happens: its call of sub_avg ran first,
\* then every magnitude was divided by the maximum of before.
C13_WitnessNested ==
    /\ phase = "ready" /\ rescales = 2
    /\ last.fn = "rescale_sub_avg_then_div_max"
    /\ Len(factory_args) = 2
    /\ \E i \in 1..Len(data) : FLt(data[i][2], 0)
    /\ FLt(max[2], FromInt(1))

\* C13 happens: a second rescale returned, and the factory saw statistics
\* that the first rescale had produced, not those of the constructor input.
C13_Witness ==
    /\ phase = "ready" /\ rescales = 2
    /\ Len(factory_args) = 1
    /\ factory_args[1][1] # CalcStatistics(input).min[2]
    /\ factory_args[1][2] # CalcStatistics(input).max[2]
    /\ factory_args[1][3] # CalcStatistics(input).average
    /\ factory_args[1][1] # min[2]
    /\ Len(data) >= 3

\* ------------------------------------------------------------------------
\* Properties of the Bin Mapper (specification SpecMapper)
\* ------------------------------------------------------------------------

\* The bins have been collected (and possibly handed to the constructor).
Built == job.pc \in {"mapped", "constructed"}

\* sample_rate / N for the call in progress, N the length of the FFT result.
JobResolution == FDiv(FromInt(job.sampling_rate), FromInt(Len(job.fft_result)))

\* The bin the mapper is to build from FFT index i.
BinOfIndex(i) ==
    <<FMul(FromInt(i), JobResolution), SimpleScale(job.scaling, Norm(job.fft_result[i + 1]))>>

\* The FFT indices 0..N/2 whose frequency lies within the limit, bounds
\* included.
RetainedIndices ==
    {i \in 0..(Len(job.fft_result) \div 2) :
        /\ job.limit.kind \in {"Min", "Range"} => FLe(job.limit.min, FMul(FromInt(i), JobResolution))
        /\ job.limit.kind \in {"Max", "Range"} => FLe(FMul(FromInt(i), JobResolution), job.limit.max)}

\* C12: the constructor fails for a bin sequence of length 0 or 1, so every
\* spectrum that exists has at least 2 bins; a frequency limit that leaves
\* fewer than 2 bins makes the construction fail.
C12_ShortSequenceFails ==
    /\ phase = "ready" => Len(data) >= 2
    /\ (job.pc = "constructed" /\ Len(job.bins) < 2) =>
           (phase = "panicked" /\ last.op = "new" /\ ~last.ok /\ last.why = "length")

\* C12 happens: a limit left exactly one bin and the constructor failed.
C12_Witness ==
    /\ job.pc = "constructed" /\ Len(job.bins) = 1
    /\ job.limit.kind # "All"
    /\ phase = "panicked" /\ last.op = "new"

\* C12, the empty case happens: a limit left no bin and the constructor failed.
C12_WitnessEmpty ==
    job.pc = "constructed" /\ Len(job.bins) = 0 /\ phase = "panicked"

\* C14 as the spec states it: without a limit the bins are built from
\* exactly the indices 0..N/2: N/2 + 1 bins, the first at 0 Hz, the last at
\* sample_rate / 2; and with any limit the bins are the same as for an FFT
\* result whose values above index N/2 are replaced by 0.
C14_Original ==
    Built =>
        /\ job.limit.kind = "All" =>
              /\ Len(job.bins) = Len(job.fft_result) \div 2 + 1
              /\ job.bins[1][1] = 0
              /\ job.bins[Len(job.bins)][1] = FDiv(FromInt(job.sampling_rate), FromInt(2))
              /\ \A k \in 1..Len(job.bins) : job.bins[k] = BinOfIndex(k - 1)
        /\ job.bins = MapBins([k \in 1..Len(job.fft_result) |->
                                 IF k <= Len(job.fft_result) \div 2 + 1
                                 THEN job.fft_result[k] ELSE <<0, 0>>],
                              job.sampling_rate, job.limit, job.scaling).bins

\* C14, amended: without a limit the bins are built from exactly the
\* indices 0..N/2: N/2 + 1 bins, the first at 0 Hz, the last at
\* sample_rate / 2 if N is a power of two from 2 on and below sample_rate / 2
\* if N is odd; and with any limit the bins are the same as for an FFT
\* result whose values above index N/2 are replaced by 0.
C14_RelevantHalf ==
    Built =>
        /\ job.limit.kind = "All" =>
              /\ Len(job.bins) = Len(job.fft_result) \div 2 + 1
              /\ job.bins[1][1] = 0
              /\ (Len(job.fft_result) >= 2 /\ IsPowerOfTwo(Len(job.fft_result))) =>
                     job.bins[Len(job.bins)][1]
                         = FDiv(FromInt(job.sampling_rate), FromInt(2))
              /\ Len(job.fft_result) % 2 = 1 =>
                     FLt(job.bins[Len(job.bins)][1],
                         FDiv(FromInt(job.sampling_rate), FromInt(2)))
              /\ \A k \in 1..Len(job.bins) : job.bins[k] = BinOfIndex(k - 1)
        /\ job.bins = MapBins([k \in 1..Len(job.fft_result) |->
                                 IF k <= Len(job.fft_result) \div 2 + 1
                                 THEN job.fft_result[k] ELSE <<0, 0>>],
                              job.sampling_rate, job.limit, job.scaling).bins

\* C14 happens: 8 samples without a limit gave 5 bins, and the FFT result
\* holds non-zero values above index 4.
C14_Witness ==
    /\ Built /\ job.limit.kind = "All"
    /\ Len(job.fft_result) = 8 /\ Len(job.bins) = 5
    /\ job.fft_result[8] # <<0, 0>>
    /\ job.bins[5][2] # job.bins[1][2]

\* C14, the odd length happens: one sample in a buffer of three values gave
\* a spectrum of two bins, the last at 400 / 3 Hz.
C14_WitnessOdd ==
    /\ job.pc = "constructed" /\ phase = "ready" /\ job.limit.kind = "All"
    /\ Len(job.samples) = 1 /\ Len(job.fft_result) = 3 /\ Len(data) = 2
    /\ data[2][1] = FDiv(FromInt(400), FromInt(3))
    /\ data[1][2] # 0

\* C14, the rounded magnitude happens: the coefficient (1, -1) of the
\* samples 1, 0, 0, 1 gave the bin of magnitude 0x3FB504F3, the float next
\* to the square root of 2.
C14_WitnessRoot ==
    /\ Built /\ job.limit.kind = "All" /\ job.scaling = "none"
    /\ Len(job.fft_result) = 4
    /\ Mag(job.fft_result[2][1]) = FromInt(1) /\ Mag(job.fft_result[2][2]) = FromInt(1)
    /\ job.bins[2][2] = 1068827891

\* C15: every bin has the frequency i * (sample_rate / N) of the FFT index
\* i it is built from, the bins ascend strictly by frequency, and the
\* spectrum's frequency_resolution is sample_rate / N with any limit, also
\* after the total scaling.
C15_BinFrequencies ==
    /\ Built =>
          /\ \A k \in 1..Len(job.bins) :
                 \E i \in 0..(Len(job.fft_result) \div 2) : job.bins[k] = BinOfIndex(i)
          /\ \A k \in 1..(Len(job.bins) - 1) : FLt(job.bins[k][1], job.bins[k + 1][1])
    /\ job.pc = "constructed" =>
          /\ frequency_resolution = JobResolution
          /\ \A k \in 1..Len(data) : data[k][1] = job.bins[k][1]

\* C15 happens: a spectrum limited to a range, rescaled by the total
\* scaling, with the resolution 400 / 8 = 50 Hz and its first bin above 0 Hz.
C15_Witness ==
    /\ job.pc = "constructed" /\ phase = "ready" /\ rescales = 1
    /\ job.limit.kind = "Range"
    /\ Len(job.fft_result) = 8
    /\ frequency_resolution = FromInt(50)
    /\ data[1][1] = FromInt(50)
    /\ Len(data) >= 3

\* C16: the bins are exactly those of the indices 0..N/2 whose frequency f
\* has lo <= f and f <= hi, in index order, each with the per-element
\* scaling applied once to its magnitude (the magnitude itself without a
\* scaling function); and the mapping fails only for a retained bin, never
\* for a dropped one.
C16_FilterInclusive ==
    /\ Built =>
          /\ Len(job.bins) = Cardinality(RetainedIndices)
          /\ \A k \in 1..Len(job.bins) :
                 \E i \in RetainedIndices :
                     /\ Cardinality({j \in RetainedIndices : j < i}) = k - 1
                     /\ job.bins[k] = BinOfIndex(i)
    /\ (job.pc = "transformed" /\ phase = "panicked") =>
          \E i \in RetainedIndices : ~IsFinite(BinOfIndex(i)[2])

\* C16 happens: a range whose two bounds are bin frequencies kept both of
\* them, dropped other bins, and doubled the magnitudes.
C16_Witness ==
    /\ Built /\ job.limit.kind = "Range" /\ job.scaling = "times2"
    /\ Len(job.bins) >= 2
    /\ Len(job.bins) < Len(job.fft_result) \div 2 + 1
    /\ job.bins[1][1] = job.limit.min
    /\ job.bins[Len(job.bins)][1] = job.limit.max
    /\ \E k \in 1..Len(job.bins) : job.bins[k][2] # 0

\* C16, the NaN bound happens: a lower bound that is NaN dropped every bin,
\* and the constructor failed on the empty sequence.
C16_WitnessNaN ==
    /\ job.pc = "constructed" /\ job.limit.kind = "Min" /\ IsNaN(job.limit.min)
    /\ Len(job.fft_result) = 8 /\ job.bins = <<>>
    /\ phase = "panicked" /\ last.why = "length"

\* C16, the dropped bin happens: 1/x as scaling, a bin of magnitude 0 was
\* dropped by the limit and the mapping returned.
C16_WitnessDropped ==
    /\ Built /\ job.scaling = "inverse"
    /\ \E i \in (0..(Len(job.fft_result) \div 2)) \ RetainedIndices :
           Norm(job.fft_result[i + 1]) = 0

\* C18: with a NaN or an infinite sample the call never gets past its
\* checks: no FFT result, no bin and no spectrum ever exist, and the step
\* taken from the start is the panic.
C18_BadSamplesFailFirst ==
    /\ []((\E i \in 1..Len(job.samples) : ~IsFinite(job.samples[i])) =>
             /\ job.pc = "start"
             /\ job.fft_result = <<>> /\ job.bins = <<>>
             /\ data = <<>> /\ phase # "ready")
    /\ [][(\E i \in 1..Len(job.samples) : ~IsFinite(job.samples[i])) =>
             (phase' = "panicked" /\ ~last'.ok)]_vars

\* C18 happens: the last sample is -infinity and the call panicked at its
\* checks.
C18_Witness ==
    /\ job.pc = "start" /\ phase = "panicked"
    /\ job.samples[Len(job.samples)] = -PosInf
    /\ last.why = "Infinity"

\* C20: without a limit and with a power of two as sample count, the bin
\* sequence handed to the constructor has even length.
C20_UnfilteredEven ==
    (Built /\ job.limit.kind = "All" /\ IsPowerOfTwo(Len(job.samples))) =>
        Len(job.bins) % 2 = 0

\* ------------------------------------------------------------------------
\* Properties of the real-FFT adapter (specification SpecFft)
\* ------------------------------------------------------------------------

\* C17: fft_apply returns N/2 + 1 values: entry 0 is (DC, 0), entry N/2 is
\* (the value the backend packed into entry 0's imaginary part, 0), the
\* entries between are the backend's; fft_relevant_res_samples_count(N) is
\* the length of the result.
C17_NyquistUnpacked ==
    job.pc = "fft_done" =>
        /\ Len(job.backend) = Len(job.samples) \div 2
        /\ Len(job.res) = Len(job.samples) \div 2 + 1
        /\ job.res[1] = <<job.backend[1][1], 0>>
        /\ job.res[Len(job.samples) \div 2 + 1] = <<job.backend[1][2], 0>>
        /\ \A i \in 2..(Len(job.samples) \div 2) : job.res[i] = job.backend[i]
        /\ FftRelevantResSamplesCount(Len(job.samples)) = Len(job.res)

\* C17 happens: 16384 samples, and the backend packed a Nyquist value that
\* is neither 0 nor the DC value.
C17_Witness ==
    /\ job.pc = "fft_done" /\ Len(job.samples) = 16384
    /\ job.backend[1][2] # 0
    /\ job.backend[1][2] # job.backend[1][1]
    /\ job.backend[2] # <<0, 0>>

\* C19: fft_apply returns exactly for the sample counts that are powers of
\* two from 2 to 16384 and panics, returning nothing, for every other.
C19_SupportedLengths ==
    /\ job.pc = "fft_done" =>
          /\ IsPowerOfTwo(Len(job.samples))
          /\ 2 <= Len(job.samples) /\ Len(job.samples) <= 16384
    /\ phase = "panicked" =>
          /\ ~(IsPowerOfTwo(Len(job.samples))
               /\ 2 <= Len(job.samples) /\ Len(job.samples) <= 16384)
          /\ job.res = <<>> /\ ~last.ok

\* C19 happens: 32768 samples, a power of two above the range, panicked.
C19_Witness ==
    phase = "panicked" /\ Len(job.samples) = 32768 /\ last.op = "fft_apply"

\* C19, the upper end happens: 16384 samples returned.
C19_WitnessTop ==
    job.pc = "fft_done" /\ Len(job.samples) = 16384

\* ------------------------------------------------------------------------
\* Claims on reads, frames and statistics
\* ------------------------------------------------------------------------

\* The positions of a rescale call in progress.
RescalePcs == {"factory", "loop", "scale_fn",
               "store_min", "store_max", "store_average", "store_median"}

\* C21: a read made while a rescale is in progress (from inside the factory
\* or the per-element function) either fails or returns exactly what the
\* same read returns on the fields as they were before the call's first
\* write (job.pre); and whenever such a read is made the four cells still
\* hold the statistics of before, and an operation that reads the bins
\* fails unless no magnitude has been written yet.
C21_NoMixedRead ==
    /\ []((job.pc \in RescalePcs /\ last.op \in ReadOps /\ last.ok) =>
             last.out = ReadOutcomeOn(job.pre, FALSE, last.op, last.arg, last.fn).out)
    /\ [][(job.pc \in RescalePcs /\ job' = job /\ last'.op \in ReadOps) =>
             /\ <<average, median, min, max>> =
                    <<job.pre.average, job.pre.median, job.pre.min, job.pre.max>>
             /\ (last'.op \in DataReaders /\ last'.ok) => data = job.pre.data]_vars

\* A statistic is read inside the per-element function after a magnitude
\* has changed.
C21_Witness ==
    /\ job.pc = "scale_fn" /\ job.i >= 2
    /\ data # job.pre.data
    /\ last.op = "average" /\ last.ok
    /\ phase = "ready"

\* The bins are read inside the per-element function after a magnitude has
\* changed: the read fails.
C21_WitnessFails ==
    /\ job.pc = "scale_fn" /\ job.i >= 2
    /\ data # job.pre.data
    /\ last.op = "data" /\ ~last.ok /\ last.why = "already mutably borrowed"
    /\ phase = "panicked"

\* The bins are read inside the factory.
C21_WitnessFactory ==
    /\ job.pc = "factory"
    /\ last.op = "data" /\ last.ok /\ last.out = job.pre.data

\* The factory kept the Ref of its data(): borrow_mut() panicked and the
\* bins and the cells are those of before the call.
C21_WitnessKeptRef ==
    /\ phase = "panicked" /\ job.pc = "factory" /\ job.outer = <<>>
    /\ job.kind = "sub_min_keeping_ref" /\ data_ref = 1
    /\ last.op = "apply_complex_scaling_fn" /\ last.why = "already borrowed"
    /\ Current = job.pre /\ data = input

\* The factory held the Ref of its data() while it made its own call: the
\* borrow_mut() of that call panicked.
C21_WitnessNestedRef ==
    /\ phase = "panicked" /\ job.pc = "factory" /\ job.outer # <<>>
    /\ job.outer[1].kind = "rescale_sub_avg_then_div_max" /\ data_ref = 1
    /\ last.op = "apply_complex_scaling_fn" /\ last.why = "already borrowed"
    /\ data = input

\* C22: a step of any operation other than apply_complex_scaling_fn, whether
\* it returns or fails, leaves the bins, the resolution and the four cached
\* statistics as they were.
C22_ReadOnly ==
    [][(phase = "ready" /\ last'.op # "apply_complex_scaling_fn") =>
           /\ data' = data
           /\ frequency_resolution' = frequency_resolution
           /\ <<average', median', min', max'>> = <<average, median, min, max>>]_vars

\* A lookup above the highest frequency of a rescaled spectrum has failed.
C22_Witness ==
    /\ last.op = "freq_val_exact" /\ ~last.ok /\ last.why = "out of bounds"
    /\ phase = "panicked"
    /\ rescales >= 1 /\ data # input

\* range() has returned on a rescaled spectrum.
C22_WitnessRange ==
    /\ last.op = "range" /\ last.ok /\ last.out = <<FSub(max[2], min[2])>>
    /\ rescales >= 1 /\ data # input

\* The indices of the bins whose frequency has the key k under key_fn.
BinsWithKey(key_fn, k) == {i \in 1..Len(data) : KeyOf(key_fn, data[i][1]) = k}

\* k is fr truncated to an unsigned integer (for 0 <= fr < 65535).
IsTruncationOf(k, fr) ==
    /\ k[1] = 0
    /\ FLe(FromInt(k[2]), fr)
    /\ FLt(fr, FromInt(k[2] + 1))

\* C24: the map to_map(key_fn) returns has exactly the keys of the stored
\* frequencies; the entry of a key is the magnitude of the bin of highest
\* frequency among the bins with that key; the default key is the truncated
\* frequency; the map has at most as many entries as there are bins, and as
\* many exactly when no two bins share a key.
C24_ToMap ==
    (last.op = "to_map" /\ last.ok) =>
        LET map == last.out[1]
            keys == {KeyOf(last.fn, data[i][1]) : i \in 1..Len(data)}
        IN  /\ DOMAIN map = keys
            /\ \A k \in keys :
                   \E i \in BinsWithKey(last.fn, k) :
                       /\ \A j \in BinsWithKey(last.fn, k) : FLe(data[j][1], data[i][1])
                       /\ map[k] = data[i][2]
            /\ (last.fn = "default") =>
                   \A i \in 1..Len(data) :
                       \E k \in keys : IsTruncationOf(k, data[i][1]) /\ i \in BinsWithKey("default", k)
            /\ Cardinality(keys) <= Len(data)
            /\ (Cardinality(keys) = Len(data)) <=>
                   (\A i, j \in 1..Len(data) :
                        i # j => KeyOf(last.fn, data[i][1]) # KeyOf(last.fn, data[j][1]))

\* to_map with the default key on bins 0.5 Hz apart: two bins of different
\* magnitude share a key.
C24_Witness ==
    /\ last.op = "to_map" /\ last.ok /\ last.fn = "default"
    /\ \E i \in 1..(Len(data) - 1) :
           /\ KeyOf("default", data[i][1]) = KeyOf("default", data[i + 1][1])
           /\ data[i][2] # data[i + 1][2]
           /\ last.out[1][KeyOf("default", data[i][1])] = data[i + 1][2]
    /\ Cardinality(DOMAIN last.out[1]) < Len(data)

\* to_map with the key fr * 1000 on bins 0.5 Hz apart: every bin has its
\* own entry.
C24_WitnessDistinct ==
    /\ last.op = "to_map" /\ last.ok /\ last.fn = "times1000"
    /\ Len(data) = MaxLen
    /\ FLt(frequency_resolution, FromInt(1))
    /\ Cardinality(DOMAIN last.out[1]) = Len(data)

\* C23: a lookup of a frequency between the lowest and the highest stored
\* frequency never ends in the panic behind the window scan: the scan stops
\* at a window, and the lookup returns from it (or fails there, building a
\* value that is not finite).
C23_NoDragons ==
    (/\ last.op \in Lookups
     /\ FLe(LowestFr, last.arg) /\ FLe(last.arg, HighestFr)) =>
        /\ last.why # "Here be dragons"
        /\ last.ok \/ last.why = "not finite"
        /\ FirstWindow(data, last.arg) \in 1..(Len(data) - 1)

\* A lookup has returned from the last of at least two windows.
C23_Witness ==
    /\ last.op \in Lookups /\ last.ok
    /\ Len(data) >= 3
    /\ FirstWindow(data, last.arg) = Len(data) - 1
    /\ FLt(data[Len(data) - 1][1], last.arg) /\ FLt(last.arg, HighestFr)
    /\ ~WithinThreeUlps(last.arg, HighestFr)

\* Every stored magnitude equals v.
AllEqual(v) == \A i \in 1..Len(data) : data[i][2] = v

\* C25 as stated: after construction and after every rescale the median and
\* the average lie between the least and the greatest magnitude, and all
\* four statistics equal v when every magnitude equals v.
C25_Original ==
    phase = "ready" =>
        /\ FLe(min[2], median) /\ FLe(median, max[2])
        /\ FLe(min[2], average) /\ FLe(average, max[2])
        /\ \A v \in {data[1][2]} :
               AllEqual(v) => (min[2] = v /\ max[2] = v /\ average = v /\ median = v)

\* C25, amended: after construction and after every rescale the median lies
\* between the least and the greatest magnitude; the average, a rounded sum
\* divided by the length, lies at most Len - 2 ULPs below the least or above
\* the greatest magnitude (so between them for two bins); when every
\* magnitude equals v, min, max and median equal v and the average is at
\* most Len - 2 ULPs away from v.
C25_Amended ==
    phase = "ready" =>
        /\ FLe(min[2], median) /\ FLe(median, max[2])
        /\ Num(min[2]) - (Len(data) - 2) <= Num(average)
        /\ Num(average) <= Num(max[2]) + (Len(data) - 2)
        /\ \A v \in {data[1][2]} :
               AllEqual(v) =>
                   /\ min[2] = v /\ max[2] = v /\ median = v
                   /\ Abs(Num(average) - Num(v)) <= Len(data) - 2

\* Three bins of magnitude 1.3333337: the average is one ULP below all of
\* them.
C25_Witness ==
    /\ phase = "ready" /\ Len(data) = 3
    /\ AllEqual(OneAndAThird)
    /\ min[2] = OneAndAThird /\ max[2] = OneAndAThird /\ median = OneAndAThird
    /\ average = OneAndAThird - 1

\* A rescaled spectrum of three unequal magnitudes.
C25_WitnessRescaled ==
    /\ phase = "ready" /\ Len(data) = 3 /\ rescales >= 1
    /\ FLt(min[2], median) /\ FLt(median, max[2])
    /\ FLt(min[2], average) /\ FLt(average, max[2])

====
